---- MODULE Spec2Model ----
(***************************************************************************)
(* A model of sitcpy: the monotonic State primitive (sitcpy/__init__.py),  *)
(* the RBCP client (sitcpy/rbcp.py) and the RBCP pseudo server with its    *)
(* virtual register bank (sitcpy/rbcp_server.py).                          *)
(***************************************************************************)
EXTENDS Integers, Sequences, FiniteSets, TLC

VARIABLES
    state,      \* State._state
    condOwner,  \* the thread holding State._cond's lock, or "free"
    thr,        \* per thread: position inside transit()/wait(), arguments, result
    now,        \* time.time(), in ticks
    ncalls,     \* calls of transit()/wait() made so far
    hdrCall,    \* Rbcp._make_header, if called last: its arguments and outcome
    chkCall,    \* Rbcp._check_packet, if called last: its arguments and outcome
    registers,  \* RbcpServer._registers
    srvUp,      \* RbcpServer.run is in its loop (its socket is bound)
    error_short_message,  \* RbcpServer._error_short_message
    srvInbox,   \* datagrams queued at the server's socket
    cliInbox,   \* datagrams queued at the client's socket
    cur_packet_id,  \* Rbcp._packet_id
    cur_wait_id,    \* cur_wait_id of the call in progress
    cliPc,      \* "idle", or "recv": the client is in _recv_packet
    cliRes,     \* how the client's last call ended
    sent,       \* history: requests the client has sent
    nraw,       \* history: datagrams other senders have sent to the server
    srvLog,     \* history: what the server handled in the last step, and its reply
    write_callbacks,  \* the _write_callbacks of the regions: pairs <<index, address>>
    read_callbacks,   \* the _read_callbacks of the regions: pairs <<index, address>>
    bankRes,    \* the last call of the bank's API, if the last step was one
    data_unit,  \* DaqClient.run: data_unit, 0 before run() reads it
    byte_array, \* DaqClient.run: byte_array, the bytes held back
    daq_recvd,  \* history: number of bytes DaqClient has received
    daq_last,   \* history: the buffer on_daq_data got in the last step, if any
    daq_data_bytes,  \* DaqHandler._data_bytes
    rest_byte_data,  \* SessionThread._rest_byte_data
    linesep,    \* TextHandler._linesep
    cuiRunning, \* SessionThread.run is in its loop
    cui_recvd,  \* history: the bytes the session has received
    cui_data,   \* history: the bytes on_data has got, concatenated
    cuiFind,    \* history: find_delimiter_position's argument and result, last step
    srv_state,  \* CuiServer._state
    srv_pc,     \* CuiServer.run: where the server thread is
    server_sock,  \* CuiServer._server_sock: "none", "open" or "closed"
    sessions,   \* CuiServer._sessions
    exit_flag,  \* DataHandler._exit of the server's handler
    sess,       \* per session: _state, _sock, _rest_byte_data, position in run()
    srvOut,     \* history: what on_data wrote in the last step, if it was called
    stop_called,  \* history: whose stop() has been called
    daq_state,  \* DaqClient._state
    daq_pc,     \* DaqClient.run: where the client thread is
    daq_sock,   \* DaqClient.run: sock, "none", "open" or "closed"
    daq_error,  \* DaqClient._error
    daq_calls,  \* history: calls of on_daq_error and on_daq_data, RUNNING seen
    stop_pc,    \* DaqClient.stop(): "idle", "join" or "returned"
    raw_data_queue,  \* DaqHandler._raw_data_queue: "None" or the queued buffers
    continue_raw_thread,  \* DaqHandler._continue_raw_thread
    raw_no,     \* DaqHandler._raw_no
    raw_current_size,  \* DaqHandler._raw_current_size
    raw_pc,     \* DaqHandler._raw_save_worker: where the worker thread is
    raw_data,   \* _raw_save_worker: raw_data, the buffer taken from the queue
    raw_files,  \* the spool files: sequence number -> bytes written, and history
    cc_pc,      \* CommandClient: "idle", "receive" (in _receive) or "returned"
    cc_sock,    \* CommandClient._sock: the bytes the server has sent, and whether it closed
    cc_byte_data,  \* _receive: byte_data
    cc_received,   \* what send_command returned: <<>> for None, or <<the bytes>>
    cc_sent,    \* history: the send_command call and what the server answers
    gen_count,  \* DataGenerator._count, as two 16-bit limbs
    gen_data,   \* history: the record the last create_data returned
    gen_call,   \* history: the last create_data call, _count before it, calls so far
    rbcp_state, \* RbcpServer._state
    rbcp_pc,    \* RbcpServer.run: where the server thread is
    bank_thr    \* per thread using the bank: its call of the bank's API and where it is

stateVars == <<state, condOwner, thr, now, ncalls>>
codecVars == <<hdrCall, chkCall>>
rbcpVars ==
    <<registers, srvUp, error_short_message, srvInbox, cliInbox, cur_packet_id,
      cur_wait_id, cliPc, cliRes, sent, nraw, srvLog>>
bankVars == <<write_callbacks, read_callbacks, bankRes>>
daqVars == <<data_unit, byte_array, daq_recvd, daq_last, daq_data_bytes>>
cuiVars == <<rest_byte_data, linesep, cuiRunning, cui_recvd, cui_data, cuiFind>>
srvVars ==
    <<srv_state, srv_pc, server_sock, sessions, exit_flag, sess, srvOut, stop_called>>
spoolVars ==
    <<daq_state, daq_pc, daq_sock, daq_error, daq_calls, stop_pc, raw_data_queue,
      continue_raw_thread, raw_no, raw_current_size, raw_pc, raw_data, raw_files>>
clientVars == <<cc_pc, cc_sock, cc_byte_data, cc_received, cc_sent>>
genVars == <<gen_count, gen_data, gen_call>>
lifeVars == <<rbcp_state, rbcp_pc>>
raceVars == <<bank_thr>>
auxVars == <<clientVars, genVars, lifeVars, raceVars>>
appVars == <<srvVars, spoolVars, auxVars>>
libVars == <<bankVars, daqVars, cuiVars, appVars>>
vars == <<stateVars, codecVars, rbcpVars, libVars>>

(***************************************************************************)
(* Python integers wider than TLC's: a register address is the pair        *)
(* <<hi, lo>> standing for hi * 65536 + lo, with 0 <= lo < 65536 and hi    *)
(* any integer (negative for a negative address, above 0xFFFF for one      *)
(* beyond 32 bits).                                                        *)
(***************************************************************************)
Limb == 256 * 256
Addr(hi, lo) == <<hi, lo>>
AddrAdd(a, n) == <<a[1] + ((a[2] + n) \div Limb), (a[2] + n) % Limb>>
AddrLT(a, b) == a[1] < b[1] \/ (a[1] = b[1] /\ a[2] < b[2])
AddrLE(a, b) == a = b \/ AddrLT(a, b)
\* a - b, for a and b less than a few limbs apart
AddrDiff(a, b) == (a[1] - b[1]) * Limb + (a[2] - b[2])

Min(a, b) == IF a < b THEN a ELSE b
Drop(sq, n) == SubSeq(sq, n + 1, Len(sq))
Zeros(n) == [i \in 1 .. n |-> 0]

(***************************************************************************)
(* sitcpy.rbcp: the client's codec                                         *)
(***************************************************************************)
HEADER_SIZE == 8
HEADER_READ == 0
HEADER_WRITE == 1
HEADER_VERTYPE == 255

\* A Python value passed as address or length: the int v, or a value that is no
\* int (a float such as 1.1, of integer part v).
PyInt(v) == [int |-> TRUE, v |-> v]
PyFloat(v) == [int |-> FALSE, v |-> v]

\* 0xffffffff
AddrMax == Addr(Limb - 1, Limb - 1)

\* The four address bytes of struct.pack, most significant first:
\* ((register_address & 0xff000000) >> 24) & 0xff, ...
AddrBytesMutLittleEndian(a) ==
    <<a[2] % 256, (a[2] \div 256) % 256, a[1] % 256, (a[1] \div 256) % 256>>
AddrBytes(a) ==
    <<(a[1] \div 256) % 256, a[1] % 256, (a[2] \div 256) % 256, a[2] % 256>>

\* Rbcp._make_header: the checks that raise ValueError
HeaderArgsMutNoSumCheck(register_address, length) ==
    \/ ~register_address.int
    \/ ~length.int
    \/ AddrLT(register_address.v, Addr(0, 0)) \/ AddrLT(AddrMax, register_address.v)
    \/ length.v < 0 \/ length.v > 255
HeaderArgsInvalid(register_address, length) ==
    \/ ~register_address.int
    \/ ~length.int
    \/ AddrLT(register_address.v, Addr(0, 0)) \/ AddrLT(AddrMax, register_address.v)
    \/ length.v < 0 \/ length.v > 255
    \/ AddrLT(AddrMax, AddrAdd(register_address.v, length.v))

\* Rbcp._make_header(read_write, register_address, length, packet_id)
MakeHeader(read_write, register_address, length, packet_id) ==
    IF HeaderArgsInvalid(register_address, length)
    THEN [err |-> "ValueError", data |-> <<>>]
    ELSE [err |-> "none",
          data |-> <<HEADER_VERTYPE,
                     IF read_write = HEADER_READ THEN 192 ELSE 128,
                     packet_id,
                     length.v>> \o AddrBytes(register_address.v)]

\* Rbcp._check_packet(packet, wait_id): "ok", or the exception it raises
CheckPacketMutNoIdCheck(packet, wait_id) ==
    IF Len(packet) < HEADER_SIZE THEN "RbcpError"
    ELSE IF packet[1] # HEADER_VERTYPE THEN "RbcpError"
    ELSE IF packet[2] % 2 = 1 THEN "RbcpBusError"
    ELSE "ok"
CheckPacket(packet, wait_id) ==
    IF Len(packet) < HEADER_SIZE THEN "RbcpError"
    ELSE IF packet[1] # HEADER_VERTYPE THEN "RbcpError"
    ELSE IF packet[2] % 2 = 1 THEN "RbcpBusError"
    ELSE IF packet[3] # wait_id THEN "RbcpError"
    ELSE "ok"

(***************************************************************************)
(* sitcpy.rbcp_server: VirtualRegister and the register bank               *)
(*                                                                         *)
(* A region is [start, size, mem, mutable]: mem maps the offsets holding a *)
(* non-zero byte to that byte (every other offset below size holds 0);     *)
(* mutable is FALSE when _memory is a bytes object (a region made from a   *)
(* .bin file), TRUE when it is a bytearray.                                *)
(***************************************************************************)
EmptyMem == [o \in {} |-> 0]
MemAt(mem, o) == IF o \in DOMAIN mem THEN mem[o] ELSE 0
\* The memory image of a byte sequence.
MemOf(data) == [o \in {i - 1 : i \in {j \in 1 .. Len(data) : data[j] # 0}} |-> data[o + 1]]

\* RbcpServer.__init__: self._registers.append(VirtualRegister(65536, 0xFFFF0000))
DefaultRegion ==
    [start |-> Addr(Limb - 1, 0), size |-> Limb, mem |-> EmptyMem, mutable |-> TRUE]

\* VirtualRegister.create(start_address, initial_data)
CreateRegion(start_address, initial_data, mutable) ==
    [start |-> start_address, size |-> Len(initial_data),
     mem |-> MemOf(initial_data), mutable |-> mutable]

\* VirtualRegister.check_address_range(address, length)
CheckRangeMutNoUpper(reg, address, length) == AddrLE(reg.start, address)
CheckAddressRange(reg, address, length) ==
    /\ AddrLE(reg.start, address)
    /\ AddrLE(AddrAdd(address, length), AddrAdd(reg.start, reg.size))

\* VirtualRegister.read_bytes(address, byte_length), the range being good
ReadBytes(reg, address, byte_length) ==
    [i \in 1 .. byte_length |-> MemAt(reg.mem, AddrDiff(address, reg.start) + i - 1)]

\* VirtualRegister.write_bytes(address, data_bytes), the range being good:
\* self._memory[address - start:address - start + byte_length] = data_bytes
WriteBytes(reg, address, data_bytes) ==
    LET off == AddrDiff(address, reg.start)
        touched == {off + i - 1 : i \in 1 .. Len(data_bytes)}
        val(o) == IF o \in touched THEN data_bytes[o - off + 1] ELSE reg.mem[o]
    IN  [reg EXCEPT !.mem =
            [o \in {x \in DOMAIN reg.mem \union touched : val(x) # 0} |-> val(o)]]

\* The regions of the bank whose range holds [address, address + length).
Hits(regs, address, length) ==
    {i \in 1 .. Len(regs) : CheckAddressRange(regs[i], address, length)}
FirstMutLast(hits) == CHOOSE i \in hits : \A j \in hits : i >= j
First(hits) == CHOOSE i \in hits : \A j \in hits : i <= j

\* RbcpServer.read_registers(address, length)
ReadRegisters(regs, address, length) ==
    LET hits == Hits(regs, address, length)
    IN  IF hits = {}
        THEN [st |-> "OutOfRange", data |-> <<>>]
        ELSE [st |-> "ok", data |-> ReadBytes(regs[First(hits)], address, length)]

\* RbcpServer.write_registers(address, write_data): the bank afterwards and the
\* data read back; "TypeError" when the first region holding the range is a
\* bytes object, which supports no item assignment.
WriteRegisters(regs, address, write_data) ==
    LET hits == Hits(regs, address, Len(write_data))
        i == First(hits)
    IN  IF hits = {}
        THEN [st |-> "OutOfRange", regs |-> regs, data |-> <<>>]
        ELSE IF ~regs[i].mutable
        THEN [st |-> "TypeError", regs |-> regs, data |-> <<>>]
        ELSE LET written == WriteBytes(regs[i], address, write_data)
             IN  [st |-> "ok", regs |-> [regs EXCEPT ![i] = written],
                  data |-> ReadBytes(written, address, Len(write_data))]

(***************************************************************************)
(* sitcpy.rbcp_server: the datagram handler of RbcpServer.run              *)
(***************************************************************************)
\* _make_header(read_write, packet_id, register_address, length); struct.pack
\* raises struct.error for a length above 255.
SrvHeaderMutLengthFirst(read_write, packet_id, register_address, length) ==
    IF length > 255
    THEN [err |-> "struct.error", data |-> <<>>]
    ELSE [err |-> "none",
          data |-> <<255,
                     CASE read_write = "r" -> 200 [] read_write = "w" -> 136
                       [] read_write = "re" -> 201 [] read_write = "we" -> 137,
                     length, packet_id>> \o AddrBytes(register_address)]
SrvMakeHeader(read_write, packet_id, register_address, length) ==
    IF length > 255
    THEN [err |-> "struct.error", data |-> <<>>]
    ELSE [err |-> "none",
          data |-> <<255,
                     CASE read_write = "r" -> 200 [] read_write = "w" -> 136
                       [] read_write = "re" -> 201 [] read_write = "we" -> 137,
                     packet_id, length>> \o AddrBytes(register_address)]

\* struct.unpack(">I", bytes(rbcp_msg[4:8]))[0]
PacketAddress(rbcp_msg) ==
    Addr(rbcp_msg[5] * 256 + rbcp_msg[6], rbcp_msg[7] * 256 + rbcp_msg[8])

\* packet_data[0:packet_length], the bytes handed to write_registers
WritePayloadMutAll(packet_data, packet_length) == packet_data
WritePayload(packet_data, packet_length) ==
    SubSeq(packet_data, 1, Min(packet_length, Len(packet_data)))

\* The reply to a request, or the exception that ends the thread: a header
\* followed by data, sent unless struct.pack raised.
Reply(hdr, data, regs) ==
    IF hdr.err = "none"
    THEN [kind |-> "replied", reply |-> hdr.data \o data, regs |-> regs]
    ELSE [kind |-> "died", reply |-> <<>>, regs |-> regs]

\* The body of RbcpServer.run's loop for one datagram: kind is "short" (counted
\* and skipped), "dropped" (skipped), "replied" or "died" (an exception that is no
\* OSError leaves the loop).
HandleDatagram(regs, rbcp_msg) ==
    IF Len(rbcp_msg) < 8 THEN [kind |-> "short", reply |-> <<>>, regs |-> regs]
    ELSE IF rbcp_msg[1] # 255 THEN [kind |-> "dropped", reply |-> <<>>, regs |-> regs]
    ELSE IF rbcp_msg[2] \notin {192, 128}
    THEN [kind |-> "dropped", reply |-> <<>>, regs |-> regs]
    ELSE
      LET packet_id == rbcp_msg[3]
          packet_length == rbcp_msg[4]
          packet_address == PacketAddress(rbcp_msg)
          packet_data == Drop(rbcp_msg, 8)
      IN  IF rbcp_msg[2] = 192
          THEN LET rd == ReadRegisters(regs, packet_address, packet_length)
               IN  IF rd.st = "ok"
                   THEN Reply(SrvMakeHeader("r", packet_id, packet_address, packet_length),
                              rd.data, regs)
                   ELSE Reply(SrvMakeHeader("re", packet_id, packet_address,
                                            Len(packet_data)),
                              packet_data, regs)
          ELSE LET wr == WriteRegisters(regs, packet_address,
                                        WritePayload(packet_data, packet_length))
               IN  IF wr.st = "ok"
                   THEN Reply(SrvMakeHeader("w", packet_id, packet_address, packet_length),
                              packet_data, wr.regs)
                   ELSE IF wr.st = "OutOfRange"
                   THEN Reply(SrvMakeHeader("we", packet_id, packet_address,
                                            Len(packet_data)),
                              packet_data, regs)
                   ELSE [kind |-> "died", reply |-> <<>>, regs |-> regs]

(***************************************************************************)
(* The RBCP client and server exchanging datagrams                         *)
(*                                                                         *)
(* A queued datagram is [src, data, tag, oor]: src is who gets the reply,  *)
(* data the bytes; tag (history) numbers the client request it is or       *)
(* answers, 0 for none; oor (history) tells that the bank held no region   *)
(* for the request's range when the server handled it.                     *)
(* srvLog (history) is the datagram the server handled in the last step    *)
(* and its reply, NoLog when the last step was not the server's.           *)
(***************************************************************************)
\* Datagrams a socket queues at most; a datagram arriving at a full queue is lost.
MaxQueue == 2
\* Datagrams sent to the server at most, by the client and by others.
MaxSent == 3
NoResult == [kind |-> "none", data |-> <<>>, tag |-> 0, oor |-> FALSE]
NoLog == [req |-> <<>>, kind |-> "none", reply |-> <<>>]

\* Rbcp.__init__ and RbcpServer.__init__, the server started.
InitRbcp ==
    /\ registers = <<DefaultRegion>>
    /\ srvUp = TRUE
    /\ error_short_message = 0
    /\ srvInbox = <<>>
    /\ cliInbox = <<>>
    /\ cur_packet_id = 0
    /\ cur_wait_id = 0
    /\ cliPc = "idle"
    /\ cliRes = NoResult
    /\ sent = 0
    /\ nraw = 0
    /\ srvLog = NoLog

\* A datagram sent to a socket: queued, or lost (always when the queue is full or
\* the socket is closed).
Arrive(queue, open, dgram, lost) ==
    IF open /\ ~lost /\ Len(queue) < MaxQueue THEN Append(queue, dgram) ELSE queue

\* self._packet_id += 1; if self._packet_id == 256: self._packet_id = 0
NextIdMutWrapAt255(id) == IF id + 1 = 255 THEN 0 ELSE id + 1
NextPacketId(id) == IF id + 1 = 256 THEN 0 ELSE id + 1

\* Rbcp.read / Rbcp.write up to the sendto of _rbcp_send_recv: ValueError from
\* _make_header ends the call; otherwise the id is taken and the packet sent.
ClientCall(read_write, register_address, length, packet_data, cap) ==
    /\ cliPc = "idle"
    /\ LET hdr == MakeHeader(read_write, register_address, length, cur_packet_id)
       IN  IF hdr.err # "none"
           THEN /\ cliRes' = [NoResult EXCEPT !.kind = hdr.err]
                /\ UNCHANGED <<srvInbox, cur_packet_id, cur_wait_id, cliPc, sent>>
           ELSE /\ sent + nraw < cap
                /\ cur_wait_id' = cur_packet_id
                /\ cur_packet_id' = NextPacketId(cur_packet_id)
                /\ sent' = sent + 1
                /\ \E lost \in BOOLEAN :
                      srvInbox' = Arrive(srvInbox, srvUp,
                                         [src |-> "client", data |-> hdr.data \o packet_data,
                                          tag |-> sent + 1, oor |-> FALSE], lost)
                /\ cliPc' = "recv"
                /\ cliRes' = [NoResult EXCEPT !.kind = "pending"]
    /\ UNCHANGED <<registers, srvUp, error_short_message, cliInbox, nraw>>
    /\ srvLog' = NoLog

\* Rbcp.read(register_address, length)
ClientRead(register_address, length, cap) ==
    ClientCall(HEADER_READ, register_address, length, <<>>, cap)

\* Rbcp.write(register_address, packet_data)
ClientWrite(register_address, packet_data, cap) ==
    ClientCall(HEADER_WRITE, register_address, PyInt(Len(packet_data)), packet_data, cap)

\* _recv_packet finds the socket readable: recvfrom(HEADER_SIZE + 256), then
\* _check_packet, then the payload is returned.
ClientRecv ==
    /\ cliPc = "recv"
    /\ cliInbox # <<>>
    /\ LET dgram == Head(cliInbox)
           reply_data == SubSeq(dgram.data, 1, Min(Len(dgram.data), HEADER_SIZE + 256))
           out == IF reply_data = <<>> THEN "RbcpError"
                  ELSE CheckPacket(reply_data, cur_wait_id)
       IN  cliRes' = [kind |-> out,
                      data |-> IF out = "ok" THEN Drop(reply_data, HEADER_SIZE) ELSE <<>>,
                      tag |-> dgram.tag, oor |-> dgram.oor]
    /\ cliInbox' = Tail(cliInbox)
    /\ cliPc' = "idle"
    /\ UNCHANGED <<registers, srvUp, error_short_message, srvInbox, cur_packet_id,
                   cur_wait_id, sent, nraw>>
    /\ srvLog' = NoLog

\* _recv_packet: select times out with nothing to read, RbcpTimeout.
ClientTimeout ==
    /\ cliPc = "recv"
    /\ cliInbox = <<>>
    /\ cliRes' = [NoResult EXCEPT !.kind = "RbcpTimeout"]
    /\ cliPc' = "idle"
    /\ UNCHANGED <<registers, srvUp, error_short_message, srvInbox, cliInbox,
                   cur_packet_id, cur_wait_id, sent, nraw>>
    /\ srvLog' = NoLog

\* RbcpServer.run: one datagram received (recvfrom(4096)) and handled.
ServerRecv ==
    /\ srvUp
    /\ srvInbox # <<>>
    /\ LET dgram == Head(srvInbox)
           rbcp_msg == SubSeq(dgram.data, 1, Min(Len(dgram.data), 4096))
           h == HandleDatagram(registers, rbcp_msg)
       IN  /\ registers' = h.regs
           /\ error_short_message' =
                 IF h.kind = "short" THEN error_short_message + 1
                 ELSE error_short_message
           /\ srvUp' = (h.kind # "died")
           /\ srvInbox' = IF h.kind = "died" THEN <<>> ELSE Tail(srvInbox)
           /\ \E lost \in BOOLEAN :
                 cliInbox' =
                    IF h.kind = "replied" /\ dgram.src = "client"
                    THEN Arrive(cliInbox, TRUE,
                                [src |-> "server", data |-> h.reply, tag |-> dgram.tag,
                                 oor |-> Hits(registers, PacketAddress(rbcp_msg),
                                              rbcp_msg[4]) = {}], lost)
                    ELSE cliInbox
           /\ srvLog' = [req |-> rbcp_msg, kind |-> h.kind, reply |-> h.reply]
    /\ UNCHANGED <<cur_packet_id, cur_wait_id, cliPc, cliRes, sent, nraw>>

\* Another sender's datagram reaches the server's socket.
RawSend(data) ==
    /\ sent + nraw < MaxSent
    /\ nraw' = nraw + 1
    /\ srvInbox' = Arrive(srvInbox, srvUp,
                          [src |-> "other", data |-> data, tag |-> 0, oor |-> FALSE],
                          FALSE)
    /\ UNCHANGED <<registers, srvUp, error_short_message, cliInbox, cur_packet_id,
                   cur_wait_id, cliPc, cliRes, sent>>
    /\ srvLog' = NoLog

\* Another sender's datagram reaches the socket of the client while it waits in
\* _recv_packet, which takes a datagram from any sender.
StrayReply(data) ==
    /\ cliPc = "recv"
    /\ cliInbox = <<>>
    /\ cliInbox' = <<[src |-> "other", data |-> data, tag |-> 0, oor |-> FALSE]>>
    /\ UNCHANGED <<registers, srvUp, error_short_message, srvInbox, cur_packet_id,
                   cur_wait_id, cliPc, cliRes, sent, nraw>>
    /\ srvLog' = NoLog

\* RbcpServer.initialize_registers for a file holding one region: "bin" for
\* <address>.bin (read as bytes), "text" for the text formats (a bytearray).
\* Each start address is loaded once.
InitializeRegisters(format, address, data) ==
    /\ \A i \in 1 .. Len(registers) : registers[i].start # address
    /\ registers' = Append(registers, CreateRegion(address, data, format # "bin"))
    /\ UNCHANGED <<srvUp, error_short_message, srvInbox, cliInbox, cur_packet_id,
                   cur_wait_id, cliPc, cliRes, sent, nraw>>
    /\ srvLog' = NoLog

(***************************************************************************)
(* sitcpy.rbcp_server: the bank's API called directly                      *)
(* (read_registers, write_registers, merge_registers, write hooks)         *)
(***************************************************************************)
\* Write hooks registered at most.
MaxHooks == 1

RegionEnd(reg) == AddrAdd(reg.start, reg.size)
\* get_memory(): the bytes of a region
RegionBytes(reg) == ReadBytes(reg, reg.start, reg.size)

\* VirtualRegister._is_intersect(register)
IsIntersect(self, register) ==
    IF AddrLE(self.start, register.start)
    THEN AddrLT(register.start, RegionEnd(self))
    ELSE AddrLT(self.start, RegionEnd(register))

\* VirtualRegister._is_neighbor(register)
IsNeighbor(self, register) ==
    \/ RegionEnd(self) = register.start
    \/ RegionEnd(register) = self.start

\* VirtualRegister.merge(register), the two being neighbours or intersecting:
\* a zeroed region over both ranges, self's bytes written, then register's.
MergeMutSelfLast(self, register) ==
    LET start_address == IF AddrLE(self.start, register.start)
                         THEN self.start ELSE register.start
        end_address == IF AddrLE(RegionEnd(self), RegionEnd(register))
                       THEN RegionEnd(register) ELSE RegionEnd(self)
        merged == [start |-> start_address, size |-> AddrDiff(end_address, start_address),
                   mem |-> EmptyMem, mutable |-> TRUE]
    IN  WriteBytes(WriteBytes(merged, register.start, RegionBytes(register)),
                   self.start, RegionBytes(self))
Merge(self, register) ==
    LET start_address == IF AddrLE(self.start, register.start)
                         THEN self.start ELSE register.start
        end_address == IF AddrLE(RegionEnd(self), RegionEnd(register))
                       THEN RegionEnd(register) ELSE RegionEnd(self)
        merged == [start |-> start_address, size |-> AddrDiff(end_address, start_address),
                   mem |-> EmptyMem, mutable |-> TRUE]
    IN  WriteBytes(WriteBytes(merged, self.start, RegionBytes(self)),
                   register.start, RegionBytes(register))

\* The pairs register1.merge(register2) accepts, index1 < index2.
MergeablePairs(regs) ==
    {pr \in (1 .. Len(regs)) \X (1 .. Len(regs)) :
        /\ pr[1] < pr[2]
        /\ IsNeighbor(regs[pr[1]], regs[pr[2]]) \/ IsIntersect(regs[pr[1]], regs[pr[2]])}
\* The first of them in the order of the two loops.
FirstPair(pairs) ==
    CHOOSE pr \in pairs :
        \A q \in pairs : pr[1] < q[1] \/ (pr[1] = q[1] /\ pr[2] <= q[2])
DeleteAt(sq, i) == SubSeq(sq, 1, i - 1) \o SubSeq(sq, i + 1, Len(sq))

\* RbcpServer.merge_registers() on a bank [regs, cbs]: the first pair that
\* merges is merged into register1 (which keeps its hooks), register2 is
\* deleted (with its hooks), and merge_registers() runs again.
RECURSIVE MergeRegisters(_)
MergeRegistersMutOnePass(bank) ==
    LET pairs == MergeablePairs(bank.regs)
        pr == FirstPair(pairs)
    IN  IF Len(bank.regs) <= 1 \/ pairs = {}
        THEN bank
        ELSE [regs |-> DeleteAt([bank.regs EXCEPT
                                   ![pr[1]] = Merge(bank.regs[pr[1]], bank.regs[pr[2]])],
                                pr[2]),
              cbs |-> {<<IF cb[1] > pr[2] THEN cb[1] - 1 ELSE cb[1], cb[2]>> :
                          cb \in {c \in bank.cbs : c[1] # pr[2]}}]
MergeRegisters(bank) ==
    LET pairs == MergeablePairs(bank.regs)
        pr == FirstPair(pairs)
    IN  IF Len(bank.regs) <= 1 \/ pairs = {}
        THEN bank
        ELSE MergeRegisters(
                [regs |-> DeleteAt([bank.regs EXCEPT
                                      ![pr[1]] = Merge(bank.regs[pr[1]], bank.regs[pr[2]])],
                                   pr[2]),
                 cbs |-> {<<IF cb[1] > pr[2] THEN cb[1] - 1 ELSE cb[1], cb[2]>> :
                             cb \in {c \in bank.cbs : c[1] # pr[2]}}])

\* The hook calls of VirtualRegister.write_bytes(address, data_bytes), from the
\* k-th written address on: a hooked address gets
\* callback(write_address, data_bytes[write_address - self._start_address]),
\* and an index past the data raises IndexError.
RECURSIVE WriteCallbacks(_, _, _, _, _)
HookIndex(reg, address, write_address) == AddrDiff(write_address, reg.start)
WriteCallbacks(reg, hooked, address, data_bytes, k) ==
    IF k > Len(data_bytes)
    THEN [err |-> "none", calls |-> <<>>]
    ELSE LET write_address == AddrAdd(address, k - 1)
             index == HookIndex(reg, address, write_address)
             rest == WriteCallbacks(reg, hooked, address, data_bytes, k + 1)
         IN  IF write_address \notin hooked
             THEN rest
             ELSE IF index >= Len(data_bytes)
             THEN [err |-> "IndexError", calls |-> <<>>]
             ELSE [err |-> rest.err,
                   calls |-> <<<<write_address, data_bytes[index + 1]>>>> \o rest.calls]

\* The hook calls of VirtualRegister.read_bytes(address, byte_length) of the
\* region at index i: callback(read_address) for the hooked addresses read,
\* in address order.
ReadCallbacks(i, address, byte_length) ==
    SelectSeq([k \in 1 .. byte_length |-> AddrAdd(address, k - 1)],
              LAMBDA read_address : <<i, read_address>> \in read_callbacks)

NoBankRes ==
    [op |-> "none", before |-> <<>>, address |-> Addr(0, 0), length |-> 0,
     arg |-> <<>>, st |-> "none", data |-> <<>>, calls |-> <<>>, reads |-> <<>>]

InitBank ==
    /\ write_callbacks = {}
    /\ read_callbacks = {}
    /\ bankRes = NoBankRes

\* RbcpServer.read_registers(address, length)
BankRead(address, length) ==
    /\ LET rd == ReadRegisters(registers, address, length)
       IN  bankRes' = [NoBankRes EXCEPT !.op = "read", !.before = registers,
                          !.address = address, !.length = length,
                          !.st = rd.st, !.data = rd.data,
                          !.reads = IF rd.st = "ok"
                                    THEN ReadCallbacks(First(Hits(registers, address, length)),
                                                       address, length)
                                    ELSE <<>>]
    /\ UNCHANGED <<registers, write_callbacks, read_callbacks>>

\* RbcpServer.write_registers(address, write_data): in the first region that
\* holds the range, the hooks of the written addresses, then the bytes.
BankWrite(address, write_data) ==
    LET hits == Hits(registers, address, Len(write_data))
        i == First(hits)
        cb == WriteCallbacks(registers[i], {c[2] : c \in {d \in write_callbacks : d[1] = i}},
                             address, write_data, 1)
        wr == WriteRegisters(registers, address, write_data)
        res == [NoBankRes EXCEPT !.op = "write", !.before = registers,
                   !.address = address, !.length = Len(write_data), !.arg = write_data]
    IN  /\ IF hits = {}
           THEN /\ bankRes' = [res EXCEPT !.st = "OutOfRange"]
                /\ UNCHANGED registers
           ELSE IF cb.err # "none"
           THEN /\ bankRes' = [res EXCEPT !.st = cb.err, !.calls = cb.calls]
                /\ UNCHANGED registers
           ELSE /\ bankRes' = [res EXCEPT !.st = wr.st, !.data = wr.data, !.calls = cb.calls,
                                          !.reads = IF wr.st = "ok"
                                                    THEN ReadCallbacks(i, address, Len(write_data))
                                                    ELSE <<>>]
                /\ registers' = wr.regs
        /\ UNCHANGED <<write_callbacks, read_callbacks>>

\* RbcpServer.merge_registers()
MergeAll ==
    /\ LET merged == MergeRegisters([regs |-> registers, cbs |-> write_callbacks])
       IN  /\ registers' = merged.regs
           /\ write_callbacks' = merged.cbs
           /\ read_callbacks' = MergeRegisters([regs |-> registers, cbs |-> read_callbacks]).cbs
    /\ bankRes' = [NoBankRes EXCEPT !.op = "merge", !.before = registers, !.st = "ok"]

\* server.registers[i - 1].register_write_callback(address, callback): the
\* hook is kept if the address is in the region.
RegisterWriteCallback(i, address) ==
    /\ i \in 1 .. Len(registers)
    /\ Cardinality(write_callbacks \union {<<i, address>>}) <= MaxHooks
    /\ write_callbacks' = IF CheckAddressRange(registers[i], address, 1)
                          THEN write_callbacks \union {<<i, address>>}
                          ELSE write_callbacks
    /\ bankRes' = [NoBankRes EXCEPT !.op = "hook", !.before = registers,
                      !.address = address, !.st = "ok"]
    /\ UNCHANGED <<registers, read_callbacks>>

\* server.registers[i - 1].register_read_callback(address, callback)
RegisterReadCallback(i, address) ==
    /\ i \in 1 .. Len(registers)
    /\ Cardinality(read_callbacks \union {<<i, address>>}) <= MaxHooks
    /\ read_callbacks' = IF CheckAddressRange(registers[i], address, 1)
                         THEN read_callbacks \union {<<i, address>>}
                         ELSE read_callbacks
    /\ bankRes' = [NoBankRes EXCEPT !.op = "read_hook", !.before = registers,
                      !.address = address, !.st = "ok"]
    /\ UNCHANGED <<registers, write_callbacks>>

(***************************************************************************)
(* sitcpy.daq_client: the receive loop of DaqClient.run                    *)
(*                                                                         *)
(* The p-th byte of the TCP stream is written p, so that a buffer shows    *)
(* which bytes of the stream it holds.                                     *)
(***************************************************************************)
\* Bytes one recv returns at most.
MaxChunk == 3
\* Bytes the DAQ stream carries at most.
MaxDaqBytes == 17

InitDaq ==
    /\ data_unit = 0
    /\ byte_array = <<>>
    /\ daq_recvd = 0
    /\ daq_last = <<>>
    /\ daq_data_bytes = 0

\* run() up to the loop: data_unit = self._daq_handler.get_data_unit()
DaqStart(unit) ==
    /\ data_unit = 0
    /\ data_unit' = unit
    /\ UNCHANGED <<byte_array, daq_recvd, daq_last, daq_data_bytes>>

\* rest = length % data_unit
DaqRestMutZero(length, unit) == 0
DaqRest(length, unit) == length % unit

\* One turn of the loop with the socket readable: recv returns n bytes, and
\* the whole units of byte_array go to on_daq_data, which counts them.
DaqRecv(n) ==
    /\ data_unit > 0
    /\ daq_recvd + n <= MaxDaqBytes
    /\ daq_recvd' = daq_recvd + n
    /\ LET received == byte_array \o [i \in 1 .. n |-> daq_recvd + i]
           length == Len(received)
           rest == DaqRest(length, data_unit)
       IN  IF length >= data_unit
           THEN /\ daq_last' = SubSeq(received, 1, length - rest)
                /\ daq_data_bytes' = daq_data_bytes + (length - rest)
                /\ byte_array' = SubSeq(received, length - rest + 1, length)
           ELSE /\ daq_last' = <<>>
                /\ byte_array' = received
                /\ UNCHANGED daq_data_bytes
    /\ UNCHANGED data_unit

(***************************************************************************)
(* sitcpy.cui: TextHandler.find_delimiter_position and the receive loop    *)
(* of SessionThread.run                                                    *)
(***************************************************************************)
\* Bytes a session receives at most.
MaxCuiBytes == 5
CR == 13
LF == 10

\* bytes.find(delimiter): the lowest index (from 0) where delimiter starts, or -1
Find(byte_data, delimiter) ==
    LET at == {i \in 1 .. Len(byte_data) - Len(delimiter) + 1 :
                  SubSeq(byte_data, i, i + Len(delimiter) - 1) = delimiter}
    IN  IF at = {} THEN -1 ELSE (CHOOSE i \in at : \A j \in at : i <= j) - 1

\* TextHandler.find_delimiter_position(byte_data): the position returned and
\* the line separator remembered (sep, the old one when none is found).
FindDelimiterPosition(byte_data, sep) ==
    IF Find(byte_data, <<CR, LF>>) >= 0
    THEN [pos |-> Find(byte_data, <<CR, LF>>) + 2, sep |-> <<CR, LF>>]
    ELSE IF Find(byte_data, <<LF>>) >= 0
    THEN [pos |-> Find(byte_data, <<LF>>) + 1, sep |-> <<LF>>]
    ELSE IF Find(byte_data, <<CR>>) >= 0
    THEN [pos |-> Find(byte_data, <<CR>>) + 1, sep |-> <<CR>>]
    ELSE [pos |-> -1, sep |-> sep]

NoFind == [called |-> FALSE, byte_data |-> <<>>, pos |-> 0]

\* SessionThread.__init__ and TextHandler.__init__, the session started.
InitCui ==
    /\ rest_byte_data = <<>>
    /\ linesep = <<CR, LF>>
    /\ cuiRunning = TRUE
    /\ cui_recvd = <<>>
    /\ cui_data = <<>>
    /\ cuiFind = NoFind

\* self._rest_byte_data = byte_data[delimiter_pos:]
RestAfterMutSkipsOne(byte_data, delimiter_pos) == Drop(byte_data, delimiter_pos + 1)
RestAfter(byte_data, delimiter_pos) == Drop(byte_data, delimiter_pos)

\* One turn of the loop with the socket readable and recv returning chunk:
\* the bytes up to the delimiter found go to on_data, whose result, continue,
\* keeps the loop going or breaks it.
SessionRecv(chunk, continue) ==
    /\ cuiRunning
    /\ chunk # <<>>
    /\ Len(cui_recvd) + Len(chunk) <= MaxCuiBytes
    /\ cui_recvd' = cui_recvd \o chunk
    /\ LET byte_data == IF rest_byte_data # <<>> THEN rest_byte_data \o chunk ELSE chunk
           found == FindDelimiterPosition(byte_data, linesep)
       IN  /\ cuiFind' = [called |-> TRUE, byte_data |-> byte_data, pos |-> found.pos]
           /\ linesep' = found.sep
           /\ IF found.pos >= 0
              THEN /\ cui_data' = cui_data \o SubSeq(byte_data, 1, found.pos)
                   /\ cuiRunning' = continue
                   /\ rest_byte_data' = IF continue THEN RestAfter(byte_data, found.pos)
                                        ELSE rest_byte_data
              ELSE /\ rest_byte_data' = byte_data
                   /\ UNCHANGED <<cui_data, cuiRunning>>

\* recv returns no data, the peer has closed: the loop is left.
SessionClosed ==
    /\ cuiRunning
    /\ cuiRunning' = FALSE
    /\ cuiFind' = NoFind
    /\ UNCHANGED <<rest_byte_data, linesep, cui_recvd, cui_data>>

(***************************************************************************)
(* sitcpy.State                                                            *)
(***************************************************************************)

THREAD_NOT_STARTED == 0
THREAD_STARTING == 1
THREAD_RUNNING == 2
THREAD_STOPPING == 3
THREAD_STOPPED == 4

\* The threads sharing one State object.
Threads == {"t1", "t2", "t3"}

\* Calls of transit()/wait() made at most, over all threads.
MaxCalls == 2
\* The clock stops ticking here; every wait() deadline lies before it.
MaxTime == 1

StateValues == THREAD_STARTING .. THREAD_STOPPING

\* seq numbers the calls in the order they took the lock (history).
\* pc: "idle" (not in a call; op/arg/ret describe the last call, if any),
\* "w_loop" (in wait()'s loop, holding the lock), "w_blocked" (inside
\* self._cond.wait(...), lock released).
IdleThread ==
    [pc |-> "idle", op |-> "none", arg |-> 0, tmoNone |-> TRUE, end |-> 0,
     notified |-> FALSE, ret |-> FALSE, seq |-> 0]

\* State.__init__(initial_state=0)
InitState ==
    /\ state = THREAD_NOT_STARTED
    /\ condOwner = "free"
    /\ thr = [t \in Threads |-> IdleThread]
    /\ now = 0
    /\ ncalls = 0

\* transit(): the test `new_state > self._state`
TransitMutNotEqual(new_state, cur) == new_state # cur
TransitMutGE(new_state, cur) == new_state >= cur
TransitAllowed(new_state, cur) == new_state > cur

\* transit(): self._cond.notify_all() wakes every thread blocked in cond.wait()
NotifyMutNone(th) == th
NotifyAll(th) ==
    [t \in Threads |->
        IF th[t].pc = "w_blocked" THEN [th[t] EXCEPT !.notified = TRUE] ELSE th[t]]

\* wait(): the test `self._state >= state`
WaitMutStrict(cur, target) == cur > target
WaitSatisfied(cur, target) == cur >= target

\* wait(): the test `now > end`
WaitMutExpiredAtEnd(t_now, t_end) == t_now >= t_end
WaitExpired(t_now, t_end) == t_now > t_end

\* transit(new_state): takes the lock of `with self._cond`, runs its body and
\* releases the lock on return.
Transit(t, new_state) ==
    /\ thr[t].pc = "idle"
    /\ ncalls < MaxCalls
    /\ condOwner = "free"
    /\ ncalls' = ncalls + 1
    /\ IF TransitAllowed(new_state, state)
       THEN /\ state' = new_state
            /\ thr' = [NotifyAll(thr) EXCEPT ![t] = [IdleThread EXCEPT
                          !.op = "transit", !.arg = new_state, !.ret = TRUE,
                          !.seq = ncalls + 1]]
       ELSE /\ state' = state
            /\ thr' = [thr EXCEPT ![t] = [IdleThread EXCEPT
                          !.op = "transit", !.arg = new_state, !.ret = FALSE,
                          !.seq = ncalls + 1]]
    /\ UNCHANGED <<condOwner, now>>

\* wait(state, timeout), timeout None or a number of ticks: `with self._cond:` is
\* entered and `end = time.time() + (timeout or 0)` computed.
WaitEnter(t, target, tmoNone, tmo) ==
    /\ thr[t].pc = "idle"
    /\ ncalls < MaxCalls
    /\ tmoNone => tmo = 0
    /\ now + tmo < MaxTime
    /\ condOwner = "free"
    /\ condOwner' = t
    /\ ncalls' = ncalls + 1
    /\ thr' = [thr EXCEPT ![t] = [IdleThread EXCEPT
                  !.pc = "w_loop", !.op = "wait", !.arg = target,
                  !.tmoNone = tmoNone, !.end = now + tmo, !.seq = ncalls + 1]]
    /\ UNCHANGED <<state, now>>

\* What a thread's record keeps once wait() has returned.
Returned(th, r) ==
    [IdleThread EXCEPT !.op = th.op, !.arg = th.arg, !.ret = r, !.seq = th.seq]

\* One pass of wait()'s loop, run holding the lock: return True, return False,
\* or block in self._cond.wait(...), which releases the lock.
WaitLoop(t) ==
    /\ thr[t].pc = "w_loop"
    /\ condOwner = t
    /\ condOwner' = "free"
    /\ thr' = [thr EXCEPT ![t] =
          IF WaitSatisfied(state, thr[t].arg)
          THEN Returned(@, TRUE)
          ELSE IF (~thr[t].tmoNone) /\ WaitExpired(now, thr[t].end)
          THEN Returned(@, FALSE)
          ELSE [@ EXCEPT !.pc = "w_blocked", !.notified = FALSE]]
    /\ UNCHANGED <<state, now, ncalls>>

\* self._cond.wait(...) returns: the thread was notified, or the timeout of
\* wait(end - now) has run out, and it has taken the lock again.
WaitWake(t) ==
    /\ thr[t].pc = "w_blocked"
    /\ \/ thr[t].notified
       \/ (~thr[t].tmoNone) /\ now >= thr[t].end
    /\ condOwner = "free"
    /\ condOwner' = t
    /\ thr' = [thr EXCEPT ![t].pc = "w_loop", ![t].notified = FALSE]
    /\ UNCHANGED <<state, now, ncalls>>

\* The clock advances.
Tick ==
    /\ now < MaxTime
    /\ now' = now + 1
    /\ UNCHANGED <<state, condOwner, thr, ncalls>>

ThreadStep(t) ==
    \/ WaitLoop(t)
    \/ WaitWake(t)

(***************************************************************************)
(* The codec functions of the client, called on their own                  *)
(***************************************************************************)
HdrAddrs ==
    {PyFloat(Addr(0, 1)), PyInt(Addr(-1, Limb - 1)), PyInt(Addr(0, 0)), PyInt(Addr(0, 254)),
     PyInt(Addr(4660, 22136)), PyInt(Addr(Limb - 1, 65280)),
     PyInt(Addr(Limb - 1, 65281)), PyInt(AddrMax), PyInt(Addr(Limb, 0))}
HdrLens == {PyFloat(1), PyInt(-1), PyInt(0), PyInt(1), PyInt(254), PyInt(255), PyInt(256)}
PacketIds == {0, 1, 255}
\* Reply datagrams and their truncations: version, command, id, length, address,
\* one payload byte.
CheckPackets ==
    {SubSeq(<<ver, cmd, id, 1, 0, 0, 0, 0, 5>>, 1, n) :
        ver \in {HEADER_VERTYPE, 0}, cmd \in {200, 136, 201, 137},
        id \in PacketIds, n \in {0, 1, 2, 3, 7, 8, 9}}

NoHdrCall ==
    [called |-> FALSE, rw |-> HEADER_READ, a |-> PyInt(Addr(0, 0)),
     l |-> PyInt(0), id |-> 0, out |-> [err |-> "none", data |-> <<>>]]
NoChkCall == [called |-> FALSE, packet |-> <<>>, wait_id |-> 0, out |-> "ok"]

InitCodec ==
    /\ hdrCall = NoHdrCall
    /\ chkCall = NoChkCall

MakeHeaderCall(rw, a, l, id) ==
    /\ hdrCall' = [called |-> TRUE, rw |-> rw, a |-> a, l |-> l, id |-> id,
                   out |-> MakeHeader(rw, a, l, id)]
    /\ chkCall' = NoChkCall

CheckPacketCall(packet, wait_id) ==
    /\ chkCall' = [called |-> TRUE, packet |-> packet, wait_id |-> wait_id,
                   out |-> CheckPacket(packet, wait_id)]
    /\ hdrCall' = NoHdrCall

NextCodec ==
    \/ \E rw \in {HEADER_READ, HEADER_WRITE}, a \in HdrAddrs, l \in HdrLens,
          id \in PacketIds : MakeHeaderCall(rw, a, l, id)
    \/ \E packet \in CheckPackets, wait_id \in PacketIds :
          CheckPacketCall(packet, wait_id)

(***************************************************************************)
(* sitcpy.cui: CommandHandler                                              *)
(*                                                                         *)
(* The handler is the CommandHandlerEx of tests/test_cui.py: the built-in  *)
(* commands close, exit, help and state, and xxx, which raises.  A text    *)
(* written to a session is [fmt, arg]: the format string and the numbers   *)
(* or characters that fill it.  What one call of on_data writes is a       *)
(* sequence of items [kind, text, end]: a reply line with the line         *)
(* separator that ends it, or the prompt, which has none.                  *)
(***************************************************************************)
SEMI == 59
SPACE == 32
\* str.strip() removes these from both ends
WhiteSpace == {9, 10, 11, 12, 13, 28, 29, 30, 31, 32}

CmdClose == <<99, 108, 111, 115, 101>>
CmdExit == <<101, 120, 105, 116>>
CmdHelp == <<104, 101, 108, 112>>
CmdState == <<115, 116, 97, 116, 101>>
CmdXxx == <<120, 120, 120>>
\* self._commands: the names, sorted, with the number of lines of their usage
Commands == <<CmdClose, CmdExit, CmdHelp, CmdState, CmdXxx>>
UsageLines(cmd) == IF cmd = CmdHelp THEN 3 ELSE 1
IsCommand(name) == \E k \in 1 .. Len(Commands) : Commands[k] = name

\* Op(v), where v is evaluated once, before Op is applied to it
With(v, Op(_)) == CHOOSE r \in {Op(x) : x \in {v}} : TRUE

\* str.strip()
Strip(str) ==
    LET strip(s) ==
            LET keep == {i \in 1 .. Len(s) : s[i] \notin WhiteSpace}
            IN  IF keep = {} THEN <<>>
                ELSE SubSeq(s, CHOOSE i \in keep : \A j \in keep : i <= j,
                               CHOOSE i \in keep : \A j \in keep : j <= i)
    IN  With(str, strip)

\* str.split(sep), sep one character
RECURSIVE Split(_, _)
Split(str, sep) ==
    LET split(s) ==
            LET at == {i \in 1 .. Len(s) : s[i] = sep}
            IN  IF at = {} THEN <<s>>
                ELSE LET i == CHOOSE k \in at : \A j \in at : k <= j
                     IN  <<SubSeq(s, 1, i - 1)>> \o Split(SubSeq(s, i + 1, Len(s)), sep)
    IN  With(str, split)

\* [val for val in [val.strip() for val in cmd.split(self._seps)] if val]
Args(cmd) ==
    LET args(parts) ==
            SelectSeq([i \in 1 .. Len(parts) |-> Strip(parts[i])], LAMBDA val : val # <<>>)
    IN  With(Split(cmd, SPACE), args)

Text(fmt, arg) == [fmt |-> fmt, arg |-> arg]

\* print_help(session, command_key, usage_only): the texts replied
PrintHelp(command_key, usage_only) ==
    IF IsCommand(command_key)
    THEN [i \in 1 .. (IF usage_only THEN 1 ELSE UsageLines(command_key)) |->
             Text("usage line", Append(command_key, i))]
    ELSE <<Text("NG:Unknown command:%s", command_key)>>

RECURSIVE HelpOf(_)
HelpOf(keys) ==
    IF keys = <<>> THEN <<>> ELSE PrintHelp(Head(keys), FALSE) \o HelpOf(Tail(keys))

RECURSIVE HelpAll(_)
HelpAll(k) ==
    IF k > Len(Commands) THEN <<>> ELSE PrintHelp(Commands[k], TRUE) \o HelpAll(k + 1)

\* get_server_info_list(): address, handler, number of sessions, one line each
ServerInfoList(session_list) ==
    <<Text("Sever address: %s", <<>>), Text("Handler: %s", <<>>),
      Text("Sessions: %d", <<Len(session_list)>>)>>
    \o [i \in 1 .. Len(session_list) |-> Text("Session[%d]: %s", <<i - 1, session_list[i]>>)]

\* on_command(session, cmd_list): the texts replied, the value returned (or
\* the exception raised), and whether session.close() and set_exit() were called.
OnCommand(cmd_list, session_list) ==
    LET cmd == cmd_list[1]
        res(texts, ret, raised, close, exit) ==
            [texts |-> texts, ret |-> ret, raised |-> raised, close |-> close, exit |-> exit]
    IN  IF cmd = CmdHelp
        THEN res(IF Len(cmd_list) >= 2 THEN HelpOf(Tail(cmd_list)) ELSE HelpAll(1),
                 TRUE, FALSE, FALSE, FALSE)
        ELSE IF cmd = CmdState
        THEN res(ServerInfoList(session_list), TRUE, FALSE, FALSE, FALSE)
        ELSE IF cmd = CmdClose
        THEN res(<<Text("closing this (%s) session", <<>>)>>, FALSE, FALSE, TRUE, FALSE)
        ELSE IF cmd = CmdExit
        THEN res(<<Text("exiting thread %s", <<>>)>>, FALSE, FALSE, TRUE, TRUE)
        ELSE IF cmd = CmdXxx
        THEN res(<<>>, FALSE, TRUE, FALSE, FALSE)
        ELSE res(<<Text("NG:Unknown command [%s]", cmd)>>, TRUE, FALSE, FALSE, FALSE)

\* reply_text(session, text): the text and self.linesep go to the socket; n and
\* by (history) tell which call of on_command, counted from 1 within the
\* message, wrote the text, and the name of its command.
Line(text, sep, n, by) == [kind |-> "line", text |-> text, end |-> sep, n |-> n, by |-> by]
Lines(texts, sep, n, by) == [i \in 1 .. Len(texts) |-> Line(texts[i], sep, n, by)]
\* put_prompt(session): reply_text(session, self._prompt, False)
Prompt == [kind |-> "prompt", text |-> Text("prompt", <<>>), end |-> <<>>, n |-> 0, by |-> <<>>]

\* The loop of on_data over the commands cmds[k], cmds[k + 1], ...: n calls
\* of on_command have been made and items has been written so far.
RECURSIVE RunCommands(_, _, _, _, _, _)
RunCommands(cmds, k, n, items, sep, session_list) ==
    LET done(ret, it, close, exit, why) ==
            [ret |-> ret, items |-> it, close |-> close, exit |-> exit, why |-> why]
        run(cmd_list) ==
            LET call(r) ==
                    LET written(it) ==
                            IF r.raised
                            THEN done(FALSE,
                                      Append(it, Line(Text("NG:Error occurred (%s)", cmd_list[1]),
                                                      sep, n + 1, cmd_list[1])),
                                      FALSE, FALSE, "error")
                            ELSE IF ~r.ret
                            THEN done(FALSE, it, r.close, r.exit,
                                      IF r.exit THEN "exit" ELSE "close")
                            ELSE RunCommands(cmds, k + 1, n + 1, it, sep, session_list)
                    IN  With(items \o Lines(r.texts, sep, n + 1, cmd_list[1]), written)
            IN  IF cmd_list = <<>>
                THEN RunCommands(cmds, k + 1, n, items, sep, session_list)
                ELSE With(OnCommand(cmd_list, session_list), call)
    IN  IF k > Len(cmds)
        THEN done(TRUE, Append(items, Prompt), FALSE, FALSE, "")
        ELSE With(Args(cmds[k]), run)

\* CommandHandler.on_data(session, byte_data), the handler's line separator
\* being sep all along: what is written, the value returned, the calls of
\* session.close() and set_exit(), and why False was returned.
OnDataMutPromptAlways(byte_data, sep, session_list) ==
    LET on_data(cmds) == RunCommands(cmds, 1, 0, <<>>, sep, session_list)
        always(r) == IF r.ret THEN r ELSE [r EXCEPT !.items = Append(r.items, Prompt)]
    IN  With(With(Split(Strip(byte_data), SEMI), on_data), always)
OnData(byte_data, sep, session_list) ==
    LET on_data(cmds) == RunCommands(cmds, 1, 0, <<>>, sep, session_list)
    IN  With(Split(Strip(byte_data), SEMI), on_data)

(***************************************************************************)
(* sitcpy.cui: CuiServer and its SessionThreads                            *)
(*                                                                         *)
(* Every session of a server is made with the server's one handler         *)
(* (cui.py:846), so that linesep and exit_flag are shared by the sessions. *)
(* sess[s] is the session numbered s: state is its _state, sock "open" or  *)
(* "None", rest its _rest_byte_data, pc where its thread is in run()       *)
(* ("none" before the session exists), byte_data and pos the locals of     *)
(* run() between find_delimiter_position and on_data; nrecv, det (the      *)
(* terminator its last find detected) and ended (why it left its loop) are *)
(* history.                                                                *)
(* srvOut (history) is the call of on_data made in the last step, NoOut    *)
(* when the last step made none.  stop_called (history) holds the sessions *)
(* whose stop() has been called, and 0 once the server's has been.         *)
(***************************************************************************)
\* The sessions a server accepts, and the recv calls of all its sessions that
\* return data, at most.
SessionIds == {1, 2}
MaxRecvs == 2
RECURSIVE Recvs(_)
Recvs(S) == IF S = {} THEN 0 ELSE LET s == CHOOSE t \in S : TRUE
                                  IN  sess[s].nrecv + Recvs(S \ {s})

\* State.transit(new_state) on a state of value cur: the value afterwards
TransitTo(cur, new_state) == IF new_state > cur THEN new_state ELSE cur

NoSession ==
    [state |-> THREAD_NOT_STARTED, sock |-> "None", rest |-> <<>>, pc |-> "none",
     byte_data |-> <<>>, pos |-> -1, nrecv |-> 0, det |-> <<>>, ended |-> ""]
NoOut == [s |-> 0, byte_data |-> <<>>, items |-> <<>>, ret |-> FALSE, det |-> <<>>]

InitSrv ==
    /\ srv_state = THREAD_NOT_STARTED
    /\ srv_pc = "none"
    /\ server_sock = "none"
    /\ sessions = <<>>
    /\ exit_flag = FALSE
    /\ sess = [s \in SessionIds |-> NoSession]
    /\ srvOut = NoOut
    /\ stop_called = {}

\* CuiServer.start(): the thread is started, transit(THREAD_STARTING)
SrvStart ==
    /\ srv_pc = "none"
    /\ srv_pc' = "bind"
    /\ srv_state' = TransitTo(srv_state, THREAD_STARTING)
    /\ srvOut' = NoOut
    /\ UNCHANGED <<server_sock, sessions, exit_flag, sess, stop_called, linesep>>

\* CuiServer.stop(), called by the server's owner once its thread is started
SrvStop ==
    /\ srv_pc # "none"
    /\ srv_state' = TransitTo(srv_state, THREAD_STOPPING)
    /\ stop_called' = stop_called \cup {0}
    /\ srvOut' = NoOut
    /\ UNCHANGED <<srv_pc, server_sock, sessions, exit_flag, sess, linesep>>

\* run() up to its loop: bind and listen succeed (ok) or raise OSError
SrvBindMutNoFinally(ok) ==
    /\ srv_pc = "bind"
    /\ IF ok
       THEN /\ server_sock' = "open"
            /\ srv_state' = TransitTo(srv_state, THREAD_RUNNING)
            /\ srv_pc' = "loop"
            /\ UNCHANGED exit_flag
       ELSE /\ exit_flag' = TRUE
            /\ server_sock' = "closed"
            /\ srv_state' = srv_state
            /\ srv_pc' = "done"
    /\ srvOut' = NoOut
    /\ UNCHANGED <<sessions, sess, stop_called, linesep>>
SrvBind(ok) ==
    /\ srv_pc = "bind"
    /\ IF ok
       THEN /\ server_sock' = "open"
            /\ srv_state' = TransitTo(srv_state, THREAD_RUNNING)
            /\ srv_pc' = "loop"
            /\ UNCHANGED exit_flag
       ELSE /\ exit_flag' = TRUE
            /\ server_sock' = "closed"
            /\ srv_state' = TransitTo(srv_state, THREAD_STOPPED)
            /\ srv_pc' = "done"
    /\ srvOut' = NoOut
    /\ UNCHANGED <<sessions, sess, stop_called, linesep>>

\* A turn of the loop with a client connecting: the session is made, listed
\* and started; start() then waits for it to be RUNNING.
SrvAccept(s) ==
    /\ srv_pc = "loop"
    /\ srv_state = THREAD_RUNNING
    /\ sess[s].pc = "none"
    /\ \A t \in SessionIds : t < s => sess[t].pc # "none"
    /\ sessions' = Append(sessions, s)
    /\ sess' = [sess EXCEPT ![s] = [NoSession EXCEPT !.state = THREAD_STARTING,
                                                     !.sock = "open", !.pc = "start"]]
    /\ srv_pc' = "start"
    /\ srvOut' = NoOut
    /\ UNCHANGED <<srv_state, server_sock, exit_flag, stop_called, linesep>>

\* for session_thread in self._sessions: if stopped: self._sessions.remove(...)
\* (the list is changed while it is iterated: i is the iterator's position)
RECURSIVE Cleanup(_, _)
CleanupMutKeepsAll(session_list, i) == session_list
CleanupMutRemovesAll(session_list, i) == <<>>
Cleanup(session_list, i) ==
    IF i > Len(session_list) THEN session_list
    ELSE IF sess[session_list[i]].state = THREAD_STOPPED
    THEN Cleanup(DeleteAt(session_list, i), i + 1)
    ELSE Cleanup(session_list, i + 1)

\* The rest of a turn of the loop, once the session accepted in it (if any)
\* is RUNNING: leave on the exit flag, else drop the stopped sessions.
SrvPollMutIgnoresExit ==
    /\ \/ srv_pc = "start" /\ sess[sessions[Len(sessions)]].state >= THREAD_RUNNING
       \/ srv_pc = "loop" /\ srv_state = THREAD_RUNNING
    /\ srv_pc' = "loop"
    /\ sessions' = Cleanup(sessions, 1)
    /\ srvOut' = NoOut
    /\ UNCHANGED <<srv_state, server_sock, exit_flag, sess, stop_called, linesep>>
SrvPoll ==
    /\ \/ srv_pc = "start" /\ sess[sessions[Len(sessions)]].state >= THREAD_RUNNING
       \/ srv_pc = "loop" /\ srv_state = THREAD_RUNNING
    /\ IF exit_flag
       THEN srv_pc' = "stopping" /\ UNCHANGED sessions
       ELSE srv_pc' = "loop" /\ sessions' = Cleanup(sessions, 1)
    /\ srvOut' = NoOut
    /\ UNCHANGED <<srv_state, server_sock, exit_flag, sess, stop_called, linesep>>

\* After the loop: transit(THREAD_STOPPING), stop() and join(10) for every
\* session listed (join returns when the session ends or ten seconds have
\* passed), the list emptied, the listening socket closed.
SrvStopping ==
    /\ \/ srv_pc = "stopping"
       \/ srv_pc = "loop" /\ srv_state # THREAD_RUNNING
    /\ srv_state' = TransitTo(srv_state, THREAD_STOPPING)
    /\ sess' = [s \in SessionIds |->
                   IF \E i \in 1 .. Len(sessions) : sessions[i] = s
                   THEN [sess[s] EXCEPT !.state = TransitTo(@, THREAD_STOPPING)]
                   ELSE sess[s]]
    /\ stop_called' = stop_called \cup {sessions[i] : i \in 1 .. Len(sessions)}
    /\ sessions' = <<>>
    /\ server_sock' = "closed"
    /\ srv_pc' = "finally"
    /\ srvOut' = NoOut
    /\ UNCHANGED <<exit_flag, linesep>>

\* finally: transit(THREAD_STOPPED)
SrvFinally ==
    /\ srv_pc = "finally"
    /\ srv_state' = TransitTo(srv_state, THREAD_STOPPED)
    /\ srv_pc' = "done"
    /\ srvOut' = NoOut
    /\ UNCHANGED <<server_sock, sessions, exit_flag, sess, stop_called, linesep>>

\* SessionThread.run up to its loop: on_start writes the prompt, transit(THREAD_RUNNING)
SessionOnStart(s) ==
    /\ sess[s].pc = "start"
    /\ sess' = [sess EXCEPT ![s].state = TransitTo(@, THREAD_RUNNING), ![s].pc = "loop"]
    /\ srvOut' = NoOut
    /\ UNCHANGED <<srv_state, srv_pc, server_sock, sessions, exit_flag, stop_called, linesep>>

\* A turn of the loop with the socket readable, up to the call of on_data:
\* recv returns chunk, find_delimiter_position sets the handler's _linesep.
SessionFind(s, chunk) ==
    /\ sess[s].pc = "loop"
    /\ sess[s].state = THREAD_RUNNING
    /\ Recvs(SessionIds) < MaxRecvs
    /\ chunk # <<>>
    /\ LET byte_data == IF sess[s].rest # <<>> THEN sess[s].rest \o chunk ELSE chunk
           found == FindDelimiterPosition(byte_data, linesep)
       IN  /\ linesep' = found.sep
           /\ sess' = [sess EXCEPT ![s] =
                 IF found.pos >= 0
                 THEN [@ EXCEPT !.pc = "on_data", !.byte_data = byte_data,
                                !.pos = found.pos, !.det = found.sep, !.nrecv = @ + 1]
                 ELSE [@ EXCEPT !.rest = byte_data, !.nrecv = @ + 1]]
    /\ srvOut' = NoOut
    /\ UNCHANGED <<srv_state, srv_pc, server_sock, sessions, exit_flag, stop_called>>

\* The same turn from the call of on_data on: the message goes to on_data,
\* which replies with the handler's _linesep as it is now; on True the rest
\* is kept, on False the loop is left.
SessionOnData(s) ==
    /\ sess[s].pc = "on_data"
    /\ \E r \in {OnData(SubSeq(sess[s].byte_data, 1, sess[s].pos), linesep, sessions)} :
       LET byte_data == sess[s].byte_data
       IN  /\ srvOut' = [s |-> s, byte_data |-> SubSeq(byte_data, 1, sess[s].pos),
                         items |-> r.items, ret |-> r.ret, det |-> sess[s].det]
           /\ exit_flag' = (exit_flag \/ r.exit)
           /\ sess' = [sess EXCEPT ![s] =
                 IF r.ret
                 THEN [@ EXCEPT !.pc = "loop", !.rest = RestAfter(byte_data, sess[s].pos),
                                !.byte_data = <<>>, !.pos = -1]
                 ELSE [@ EXCEPT !.pc = "finally", !.ended = r.why,
                                !.sock = IF r.close THEN "None" ELSE @,
                                !.byte_data = <<>>, !.pos = -1]]
    /\ UNCHANGED <<srv_state, srv_pc, server_sock, sessions, stop_called, linesep>>

\* The loop left (by break, or its state no longer RUNNING): finally close()
\* and transit(THREAD_STOPPED).
SessionFinallyMutKeepsSock(s) ==
    /\ \/ sess[s].pc = "finally"
       \/ sess[s].pc = "loop" /\ sess[s].state # THREAD_RUNNING
    /\ sess' = [sess EXCEPT ![s].state = TransitTo(@, THREAD_STOPPED),
                            ![s].pc = "done",
                            ![s].ended = IF @ = "" THEN "stop" ELSE @]
    /\ srvOut' = NoOut
    /\ UNCHANGED <<srv_state, srv_pc, server_sock, sessions, exit_flag, stop_called, linesep>>
SessionFinally(s) ==
    /\ \/ sess[s].pc = "finally"
       \/ sess[s].pc = "loop" /\ sess[s].state # THREAD_RUNNING
    /\ sess' = [sess EXCEPT ![s].sock = "None",
                            ![s].state = TransitTo(@, THREAD_STOPPED),
                            ![s].pc = "done",
                            ![s].ended = IF @ = "" THEN "stop" ELSE @]
    /\ srvOut' = NoOut
    /\ UNCHANGED <<srv_state, srv_pc, server_sock, sessions, exit_flag, stop_called, linesep>>

(***************************************************************************)
(* sitcpy.daq_client: the threads of a DAQ run                             *)
(*                                                                         *)
(* DaqClient.run (daq_pc), the caller of DaqClient.stop() (stop_pc) and    *)
(* DaqHandler._raw_save_worker (raw_pc).  raw_data_queue is               *)
(* [armed, items]: armed tells that _raw_data_queue is a Queue and not     *)
(* None, items are the buffers it holds.  raw_files[k + 1] is what has     *)
(* been written to the spool file of sequence number k.  daq_sock is       *)
(* "dropped" when run() has returned without closing its socket.           *)
(* daq_calls (history) counts the calls of on_daq_start, on_daq_stop,      *)
(* on_daq_error and on_daq_data and the writes that raised, and tells      *)
(* whether connect has returned and whether the state has been RUNNING.    *)
(***************************************************************************)
\* Bytes the stream of a run carries at most; bytes after which the worker
\* goes to the next spool file (_raw_file_unit * 1024 * 1024 in the source).
MaxSpoolBytes == 4
RawFileUnit == 2
\* Queue(): maxsize, 0 for a queue without upper bound
QueueMaxsize == 0

InitSpool ==
    /\ daq_state = THREAD_NOT_STARTED
    /\ daq_pc = "none"
    /\ daq_sock = "none"
    /\ daq_error = "None"
    /\ daq_calls = [on_daq_start |-> 0, on_daq_stop |-> 0, on_daq_error |-> 0,
                    on_daq_data |-> 0, write_errors |-> 0, connected |-> FALSE,
                    running |-> FALSE]
    /\ stop_pc = "idle"
    /\ raw_data_queue = [armed |-> FALSE, items |-> <<>>]
    /\ continue_raw_thread = FALSE
    /\ raw_no = 0
    /\ raw_current_size = 0
    /\ raw_pc = "none"
    /\ raw_data = <<>>
    /\ raw_files = <<>>

\* Queue.full() and Queue.put(item, False): Full is raised on a full queue
QueueFull(items) == QueueMaxsize > 0 /\ Len(items) >= QueueMaxsize
\* queue_raw_data(byte_data): the queue afterwards
QueueRawData(queue, byte_data) ==
    IF queue.armed /\ ~QueueFull(queue.items)
    THEN [queue EXCEPT !.items = Append(@, byte_data)]
    ELSE queue

\* set_raw_save(on_off, run_no, base_dir), called before the client is started
SetRawSave(on_off) ==
    /\ daq_pc = "none"
    /\ raw_data_queue' = [armed |-> on_off, items |-> <<>>]
    /\ UNCHANGED <<daq_state, daq_pc, daq_sock, daq_error, daq_calls, stop_pc,
                   continue_raw_thread, raw_no, raw_current_size, raw_pc, raw_data,
                   raw_files, daqVars>>

\* DaqClient.start(): the thread is started, transit(THREAD_STARTING)
DaqClientStart ==
    /\ daq_pc = "none"
    /\ daq_pc' = "on_daq_start"
    /\ daq_state' = TransitTo(daq_state, THREAD_STARTING)
    /\ UNCHANGED <<daq_sock, daq_error, daq_calls, stop_pc, raw_data_queue,
                   continue_raw_thread, raw_no, raw_current_size, raw_pc, raw_data,
                   raw_files, daqVars>>

\* DaqClient.stop() up to its join: transit(THREAD_STOPPING)
DaqClientStop ==
    /\ daq_pc # "none"
    /\ stop_pc = "idle"
    /\ stop_pc' = "join"
    /\ daq_state' = TransitTo(daq_state, THREAD_STOPPING)
    /\ UNCHANGED <<daq_pc, daq_sock, daq_error, daq_calls, raw_data_queue,
                   continue_raw_thread, raw_no, raw_current_size, raw_pc, raw_data,
                   raw_files, daqVars>>

\* DaqClient.stop(): self.join(None) returns when run() has ended
DaqClientStopReturn ==
    /\ stop_pc = "join"
    /\ daq_pc = "done"
    /\ stop_pc' = "returned"
    /\ UNCHANGED <<daq_state, daq_pc, daq_sock, daq_error, daq_calls, raw_data_queue,
                   continue_raw_thread, raw_no, raw_current_size, raw_pc, raw_data,
                   raw_files, daqVars>>

\* run(): on_daq_start() starts the spool worker if raw save is armed; the
\* socket is made.
RunOnDaqStart ==
    /\ daq_pc = "on_daq_start"
    /\ daq_pc' = "connect"
    /\ daq_sock' = "open"
    /\ IF raw_data_queue.armed
       THEN /\ continue_raw_thread' = TRUE
            /\ raw_no' = 0
            /\ raw_pc' = "outer"
       ELSE UNCHANGED <<continue_raw_thread, raw_no, raw_pc>>
    /\ daq_data_bytes' = 0
    /\ daq_calls' = [daq_calls EXCEPT !.on_daq_start = @ + 1]
    /\ UNCHANGED <<daq_state, daq_error, stop_pc, raw_data_queue,
                   raw_current_size, raw_data, raw_files,
                   data_unit, byte_array, daq_recvd, daq_last>>

\* run(): connect succeeds (ok), data_unit is read, transit(THREAD_RUNNING);
\* or connect raises: _error is set and on_error(exc) is called, which is
\* on_daq_error and calls on_daq_stop().
RunConnectMutNoReturn(ok, unit) ==
    /\ daq_pc = "connect"
    /\ DaqStart(unit)
    /\ daq_state' = TransitTo(daq_state, THREAD_RUNNING)
    /\ daq_pc' = "loop"
    /\ IF ok
       THEN /\ daq_calls' = [daq_calls EXCEPT !.connected = TRUE,
                                              !.running = (daq_state' = THREAD_RUNNING)]
            /\ UNCHANGED daq_error
       ELSE /\ daq_error' = "OSError"
            /\ daq_calls' = [daq_calls EXCEPT !.on_daq_error = @ + 1,
                                              !.on_daq_stop = @ + 1,
                                              !.running = (daq_state' = THREAD_RUNNING)]
    /\ UNCHANGED <<daq_sock, stop_pc, raw_data_queue, continue_raw_thread, raw_no,
                   raw_current_size, raw_pc, raw_data, raw_files>>
RunConnect(ok, unit) ==
    /\ daq_pc = "connect"
    /\ IF ok
       THEN /\ DaqStart(unit)
            /\ daq_state' = TransitTo(daq_state, THREAD_RUNNING)
            /\ daq_calls' = [daq_calls EXCEPT !.connected = TRUE,
                                              !.running = (daq_state' = THREAD_RUNNING)]
            /\ daq_pc' = "loop"
            /\ UNCHANGED daq_error
       ELSE /\ daq_error' = "OSError"
            /\ daq_calls' = [daq_calls EXCEPT !.on_daq_error = @ + 1,
                                              !.on_daq_stop = @ + 1]
            /\ daq_pc' = "on_error"
            /\ UNCHANGED <<daq_state, daqVars>>
    /\ UNCHANGED <<daq_sock, stop_pc, raw_data_queue, continue_raw_thread, raw_no,
                   raw_current_size, raw_pc, raw_data, raw_files>>

\* A turn of the loop with the socket readable, recv returning n bytes: the
\* whole units go to on_daq_data, which counts them and queues them for the
\* spool worker.
RunRecv(n) ==
    /\ daq_pc = "loop"
    /\ daq_state = THREAD_RUNNING
    /\ daq_recvd + n <= MaxSpoolBytes
    /\ DaqRecv(n)
    /\ IF daq_last' # <<>>
       THEN /\ daq_calls' = [daq_calls EXCEPT !.on_daq_data = @ + 1]
            /\ raw_data_queue' = QueueRawData(raw_data_queue, daq_last')
       ELSE UNCHANGED <<daq_calls, raw_data_queue>>
    /\ UNCHANGED <<daq_state, daq_pc, daq_sock, daq_error, stop_pc,
                   continue_raw_thread, raw_no, raw_current_size, raw_pc, raw_data,
                   raw_files>>

\* The loop is left, its state no longer RUNNING or select/recv having
\* raised OSError (err): transit(THREAD_STOPPING), then on_daq_stop() is
\* called.
RunLeaveMutNoStop(err) ==
    /\ daq_pc = "loop"
    /\ err \/ daq_state # THREAD_RUNNING
    /\ daq_state' = TransitTo(daq_state, THREAD_STOPPING)
    /\ daq_pc' = "on_daq_stop"
    /\ daq_calls' = [daq_calls EXCEPT !.on_daq_stop = IF err THEN @ ELSE @ + 1]
    /\ UNCHANGED <<daq_sock, daq_error, stop_pc, raw_data_queue,
                   continue_raw_thread, raw_no, raw_current_size, raw_pc, raw_data,
                   raw_files, daqVars>>
RunLeave(err) ==
    /\ daq_pc = "loop"
    /\ err \/ daq_state # THREAD_RUNNING
    /\ daq_state' = TransitTo(daq_state, THREAD_STOPPING)
    /\ daq_pc' = "on_daq_stop"
    /\ daq_calls' = [daq_calls EXCEPT !.on_daq_stop = @ + 1]
    /\ UNCHANGED <<daq_sock, daq_error, stop_pc, raw_data_queue,
                   continue_raw_thread, raw_no, raw_current_size, raw_pc, raw_data,
                   raw_files, daqVars>>

\* on_daq_stop() and the end of run(): with raw save armed, on_daq_stop
\* sleeps until the queue is empty, clears _continue_raw_thread and joins
\* the worker for 0.2 s; then run() closes its socket (after the loop) or
\* returns (after a failed connect), and finally transit(THREAD_STOPPED).
OnDaqStopWaitMutNone(queue) == TRUE
OnDaqStopWait(queue) == ~queue.armed \/ queue.items = <<>>

OnDaqStop ==
    /\ daq_pc \in {"on_daq_stop", "on_error"}
    /\ OnDaqStopWait(raw_data_queue)
    /\ continue_raw_thread' = IF raw_data_queue.armed THEN FALSE ELSE continue_raw_thread
    /\ daq_sock' = IF daq_pc = "on_daq_stop" THEN "closed" ELSE "dropped"
    /\ daq_state' = TransitTo(daq_state, THREAD_STOPPED)
    /\ daq_pc' = "done"
    /\ UNCHANGED <<daq_error, daq_calls, stop_pc, raw_data_queue, raw_no,
                   raw_current_size, raw_pc, raw_data, raw_files, daqVars>>

\* _raw_save_worker, the outer loop: the next spool file is opened (ok) or
\* open raises, which ends the worker; the worker ends too when
\* _continue_raw_thread is false.
WorkerOpen(ok) ==
    /\ raw_pc = "outer"
    /\ IF ~continue_raw_thread
       THEN raw_pc' = "exit" /\ UNCHANGED <<raw_current_size, raw_files>>
       ELSE /\ raw_current_size' = 0
            /\ IF ok
               THEN raw_pc' = "inner" /\ raw_files' = Append(raw_files, <<>>)
               ELSE raw_pc' = "exit" /\ UNCHANGED raw_files
    /\ UNCHANGED <<daq_state, daq_pc, daq_sock, daq_error, daq_calls, stop_pc,
                   raw_data_queue, continue_raw_thread, raw_no, raw_data, daqVars>>

\* The inner loop: get(True, 0.01) takes the oldest buffer of the queue
\* (Empty is passed over).
WorkerGet ==
    /\ raw_pc = "inner"
    /\ continue_raw_thread
    /\ raw_data_queue.items # <<>>
    /\ raw_data' = Head(raw_data_queue.items)
    /\ raw_data_queue' = [raw_data_queue EXCEPT !.items = Tail(@)]
    /\ raw_pc' = "write"
    /\ UNCHANGED <<daq_state, daq_pc, daq_sock, daq_error, daq_calls, stop_pc,
                   continue_raw_thread, raw_no, raw_current_size, raw_files, daqVars>>

\* The inner loop, after get: the buffer is written (ok) and a full file
\* ends the inner loop; or write raises, which is logged.
WorkerWrite(ok) ==
    /\ raw_pc = "write"
    /\ raw_data' = <<>>
    /\ IF ok
       THEN /\ raw_files' = [raw_files EXCEPT ![Len(raw_files)] = @ \o raw_data]
            /\ raw_current_size' = raw_current_size + Len(raw_data)
            /\ IF raw_current_size' >= RawFileUnit
               THEN raw_no' = raw_no + 1 /\ raw_pc' = "outer"
               ELSE raw_pc' = "inner" /\ UNCHANGED raw_no
            /\ UNCHANGED daq_calls
       ELSE /\ daq_calls' = [daq_calls EXCEPT !.write_errors = @ + 1]
            /\ raw_pc' = "inner"
            /\ UNCHANGED <<raw_files, raw_current_size, raw_no>>
    /\ UNCHANGED <<daq_state, daq_pc, daq_sock, daq_error, stop_pc, raw_data_queue,
                   continue_raw_thread, daqVars>>

\* The inner loop ends on _continue_raw_thread false, and the outer with it.
WorkerLeave ==
    /\ raw_pc = "inner"
    /\ ~continue_raw_thread
    /\ raw_no' = raw_no + 1
    /\ raw_pc' = "exit"
    /\ UNCHANGED <<daq_state, daq_pc, daq_sock, daq_error, daq_calls, stop_pc,
                   raw_data_queue, continue_raw_thread, raw_current_size, raw_data,
                   raw_files, daqVars>>

(***************************************************************************)
(* CommandClient: send_command and _receive                                *)
(***************************************************************************)
\* Bounds: the bytes one recv of the client returns, and the length of a reply.
MaxCliChunk == 2
MaxReply == 2
\* The prompt of the client and of the server's handler: "$ ".
CliPrompt == <<36, 32>>
\* The reply texts of the server: bytes "a" and "$" (the prompt's first byte).
RECURSIVE CliTexts(_)
CliTexts(n) ==
    IF n = 0 THEN {<<>>}
    ELSE CliTexts(n - 1) \cup {Append(t, b) : t \in CliTexts(n - 1), b \in {97, 36}}
NoCommand == [no_reply |-> FALSE, reply |-> <<>>, prompt |-> FALSE]

InitClient ==
    /\ cc_pc = "idle"
    /\ cc_sock = [data |-> <<>>, closed |-> FALSE]
    /\ cc_byte_data = <<>>
    /\ cc_received = <<>>
    /\ cc_sent = NoCommand

\* send_command(command, no_reply): the command is sent; the server answers
\* reply and then the prompt, or reply without prompt, and may then close.
\* With no_reply nothing is read and None is returned.
SendCommand(no_reply, reply, prompt, closes) ==
    /\ cc_pc = "idle"
    /\ cc_sock' = [data |-> reply \o (IF prompt THEN CliPrompt ELSE <<>>), closed |-> closes]
    /\ cc_sent' = [no_reply |-> no_reply, reply |-> reply, prompt |-> prompt]
    /\ cc_byte_data' = <<>>
    /\ cc_received' = <<>>
    /\ cc_pc' = IF no_reply THEN "returned" ELSE "receive"

\* _receive(): one turn of the loop in which recv returns the next n bytes.
\* The prompt is looked for in these bytes.
Receive(n) ==
    /\ cc_pc = "receive"
    /\ n \in 1 .. Len(cc_sock.data)
    /\ LET read_byte_data == SubSeq(cc_sock.data, 1, n)
           pos_prompt == Find(read_byte_data, CliPrompt)
       IN  /\ cc_sock' = [cc_sock EXCEPT !.data = Drop(@, n)]
           /\ IF pos_prompt >= 0
              THEN /\ cc_byte_data' = cc_byte_data \o SubSeq(read_byte_data, 1, pos_prompt)
                   /\ cc_received' = <<cc_byte_data'>>
                   /\ cc_pc' = "returned"
              ELSE /\ cc_byte_data' = cc_byte_data \o read_byte_data
                   /\ UNCHANGED <<cc_received, cc_pc>>
    /\ UNCHANGED cc_sent

\* _receive(): recv returns no data, the server has closed: None is returned.
ReceiveClosed ==
    /\ cc_pc = "receive"
    /\ cc_sock.data = <<>>
    /\ cc_sock.closed
    /\ cc_pc' = "returned"
    /\ UNCHANGED <<cc_sock, cc_byte_data, cc_received, cc_sent>>

(***************************************************************************)
(* DataGenerator.create_data                                               *)
(***************************************************************************)
\* Bounds: the data units of one record, and the create_data calls of a run.
MaxUnitCount == 3
MaxGenCalls == 4
\* DataGenerator._data_unit
GenDataUnit == 8
\* Values of _count from which the runs start: 0 as constructed, and values
\* reached after many records, next to the limb carry and to the wrap.
GenCounts == {Addr(0, 0), Addr(0, Limb - 2), Addr(Limb - 1, Limb - 4), Addr(Limb - 1, Limb - 3)}

InitGen(count) ==
    /\ gen_count = count
    /\ gen_data = <<>>
    /\ gen_call = [n |-> 0, count |-> count, calls |-> 0]

\* The body of the loop of create_data for data_unit in range(u, stop).
RECURSIVE FillUnits(_, _, _, _)
FillUnits(data, count, u, stop) ==
    IF u >= stop THEN [data |-> data, count |-> count]
    ELSE LET count_bytes == AddrBytes(count)
             base == GenDataUnit * u
             filled == [data EXCEPT ![base + 1] = 165,
                                    ![base + 5] = count_bytes[1],
                                    ![base + 6] = count_bytes[2],
                                    ![base + 7] = count_bytes[3],
                                    ![base + 8] = count_bytes[4]]
             next == AddrAdd(count, 1)
         IN  FillUnits(filled, IF next = AddrMax THEN Addr(0, 0) ELSE next, u + 1, stop)

\* create_data(data_unit_count): the record and _count afterwards.  The loop
\* is over range(0, data_unit_count - 1).
CreateData(count, data_unit_count) ==
    FillUnits([i \in 1 .. GenDataUnit * data_unit_count |-> 0], count, 0,
              data_unit_count - 1)

CreateDataCall(n) ==
    /\ gen_call.calls < MaxGenCalls
    /\ \E r \in {CreateData(gen_count, n)} :
          /\ gen_data' = r.data
          /\ gen_count' = r.count
    /\ gen_call' = [n |-> n, count |-> gen_count, calls |-> gen_call.calls + 1]

(***************************************************************************)
(* start() and stop() of the four thread classes                           *)
(***************************************************************************)
InitLife ==
    /\ rbcp_state = THREAD_NOT_STARTED
    /\ rbcp_pc = "none"

\* start() returns when State.wait(THREAD_RUNNING) does: the thread is
\* started and its state is THREAD_RUNNING or beyond.
StartReturns(pc, st) == pc # "none" /\ st >= THREAD_RUNNING

\* CuiServer.stop() called before start()
SrvStopEarly ==
    /\ srv_pc = "none"
    /\ srv_state = THREAD_NOT_STARTED
    /\ srv_state' = TransitTo(srv_state, THREAD_STOPPING)
    /\ stop_called' = stop_called \cup {0}
    /\ srvOut' = NoOut
    /\ UNCHANGED <<srv_pc, server_sock, sessions, exit_flag, sess, linesep>>

\* SessionThread.run: on_start raises (the prompt cannot be sent), finally
\* is next.
SessionOnStartRaises(s) ==
    /\ sess[s].pc = "start"
    /\ sess' = [sess EXCEPT ![s].pc = "finally", ![s].ended = "on_start"]
    /\ srvOut' = NoOut
    /\ UNCHANGED <<srv_state, srv_pc, server_sock, sessions, exit_flag, stop_called, linesep>>

\* DaqClient.stop() called before start(): transit(THREAD_STOPPING), and
\* join raises RuntimeError as the thread is not started.
DaqClientStopEarly ==
    /\ daq_pc = "none"
    /\ stop_pc = "idle"
    /\ stop_pc' = "returned"
    /\ daq_state' = TransitTo(daq_state, THREAD_STOPPING)
    /\ UNCHANGED <<daq_pc, daq_sock, daq_error, daq_calls, raw_data_queue,
                   continue_raw_thread, raw_no, raw_current_size, raw_pc, raw_data,
                   raw_files, daqVars>>

\* RbcpServer.start(): the thread is started, transit(THREAD_STARTING)
RbcpServerStart ==
    /\ rbcp_pc = "none"
    /\ rbcp_pc' = "bind"
    /\ rbcp_state' = TransitTo(rbcp_state, THREAD_STARTING)

\* RbcpServer.stop(), before or after start(): transit(THREAD_STOPPING);
\* join(2) returns or raises.
RbcpServerStop ==
    /\ rbcp_state < THREAD_STOPPING
    /\ rbcp_state' = TransitTo(rbcp_state, THREAD_STOPPING)
    /\ UNCHANGED rbcp_pc

\* RbcpServer.run up to its loop: bind succeeds and transit(THREAD_RUNNING),
\* or bind raises, which is raised again: finally transit(THREAD_STOPPED).
RbcpServerBind(ok) ==
    /\ rbcp_pc = "bind"
    /\ IF ok
       THEN rbcp_state' = TransitTo(rbcp_state, THREAD_RUNNING) /\ rbcp_pc' = "loop"
       ELSE rbcp_state' = TransitTo(rbcp_state, THREAD_STOPPED) /\ rbcp_pc' = "done"

\* RbcpServer.run: the loop is left when the state is not RUNNING; finally
\* transit(THREAD_STOPPED).
RbcpServerFinally ==
    /\ rbcp_pc = "loop"
    /\ rbcp_state # THREAD_RUNNING
    /\ rbcp_state' = TransitTo(rbcp_state, THREAD_STOPPED)
    /\ rbcp_pc' = "done"

(***************************************************************************)
(* The register bank used by the RBCP listener thread and by the thread of *)
(* a command session (RbcpCommandHandler.on_cmd_read, on_cmd_write)        *)
(***************************************************************************)
\* Bound: the calls of the bank's API the two threads make together.
MaxBankCalls == 3
BankThreads == {"listener", "session"}
NoBankCall ==
    [pc |-> "idle", op |-> "none", address |-> Addr(0, 0), data |-> <<>>,
     index |-> 0, read_back |-> <<>>]

\* bank_thr.calls.index counts the calls the threads have made.
InitBankThreads == bank_thr = [t \in BankThreads |-> NoBankCall] @@ [calls |-> NoBankCall]

\* read_registers(address, length) by thread t: the bytes of the first region
\* that holds the range.
ReadRegistersBy(t, address, length) ==
    /\ bank_thr[t].pc = "idle"
    /\ bank_thr.calls.index < MaxBankCalls
    /\ \E rd \in {ReadRegisters(registers, address, length)} :
          bank_thr' = [bank_thr EXCEPT
             ![t] = [NoBankCall EXCEPT !.pc = "done", !.op = "read", !.address = address,
                                       !.read_back = rd.data],
             !.calls.index = @ + 1]
    /\ UNCHANGED registers

\* write_registers(address, write_data) by thread t, its first statement:
\* register.write_bytes(address, write_data) in the first region that holds
\* the range (index); VirtualRegisterOutOfRange is raised if there is none.
WriteRegistersWrite(t, address, write_data) ==
    /\ bank_thr[t].pc = "idle"
    /\ bank_thr.calls.index < MaxBankCalls
    /\ LET hits == Hits(registers, address, Len(write_data))
       IN  IF hits = {}
           THEN /\ bank_thr' = [bank_thr EXCEPT
                      ![t] = [NoBankCall EXCEPT !.pc = "done", !.op = "OutOfRange",
                                                !.address = address, !.data = write_data],
                      !.calls.index = @ + 1]
                /\ UNCHANGED registers
           ELSE /\ registers' = [registers EXCEPT
                      ![First(hits)] = WriteBytes(@, address, write_data)]
                /\ bank_thr' = [bank_thr EXCEPT
                      ![t] = [NoBankCall EXCEPT !.pc = "read_bytes", !.op = "write",
                                                !.address = address, !.data = write_data,
                                                !.index = First(hits)],
                      !.calls.index = @ + 1]

\* write_registers by thread t, its second statement:
\* return register.read_bytes(address, len(write_data))
WriteRegistersReadBack(t) ==
    /\ bank_thr[t].pc = "read_bytes"
    /\ bank_thr' = [bank_thr EXCEPT
          ![t].pc = "done",
          ![t].read_back = ReadBytes(registers[bank_thr[t].index], bank_thr[t].address,
                                     Len(bank_thr[t].data))]
    /\ UNCHANGED registers

\* The call of thread t has returned; the thread may call again.
BankCallReturn(t) ==
    /\ bank_thr[t].pc = "done"
    /\ bank_thr' = [bank_thr EXCEPT ![t] = NoBankCall]
    /\ UNCHANGED registers

(***************************************************************************)
(* Specifications                                                          *)
(***************************************************************************)
\* The state after construction, but for the DataGenerator's counter.
InitLib ==
    /\ InitState /\ InitCodec /\ InitRbcp /\ InitBank /\ InitDaq /\ InitCui
    /\ InitSrv /\ InitSpool /\ InitClient /\ InitLife /\ InitBankThreads
Init == InitLib /\ InitGen(Addr(0, 0))

NextState ==
    \/ \E t \in Threads, v \in StateValues :
          Transit(t, v) /\ UNCHANGED <<codecVars, rbcpVars, libVars>>
    \/ \E t \in Threads, v \in StateValues, n \in BOOLEAN, d \in 0 .. MaxTime :
          WaitEnter(t, v, n, d) /\ UNCHANGED <<codecVars, rbcpVars, libVars>>
    \/ \E t \in Threads : ThreadStep(t) /\ UNCHANGED <<codecVars, rbcpVars, libVars>>
    \/ Tick /\ UNCHANGED <<codecVars, rbcpVars, libVars>>

\* Threads sharing one State object.
SpecState == Init /\ [][NextState]_vars

\* The same, where every thread that can take a step takes it and the clock
\* keeps ticking.
FairSpecState ==
    /\ SpecState
    /\ \A t \in Threads : WF_vars(ThreadStep(t) /\ UNCHANGED <<codecVars, rbcpVars, libVars>>)
    /\ WF_vars(Tick /\ UNCHANGED <<codecVars, rbcpVars, libVars>>)

\* _make_header and _check_packet applied to arguments drawn from HdrAddrs,
\* HdrLens, PacketIds and CheckPackets.
SpecCodec == Init /\ [][NextCodec /\ UNCHANGED <<stateVars, rbcpVars, libVars>>]_vars

\* Addresses, lengths and data the client is called with; other senders' datagrams.
CliAddrs == {PyInt(Addr(0, 254)), PyInt(Addr(Limb - 1, 65280))}
CliLens == {PyInt(3)}
CliData == {<<7, 9>>}
RawRequests ==
    {<<255, 128, 5, 1, 255, 255, 255, 0, 3, 4>>,
     <<255, 128, 5, 2, 255, 255, 255, 0, 3>>,
     <<255, 192, 5, 2, 0, 0, 0, 0, 3>>}
InitFormats == {"bin", "text"}
InitAddrs == {Addr(0, 254)}
InitData == {<<5, 6>>}

NextRbcp ==
    \/ \E a \in CliAddrs, l \in CliLens :
          ClientRead(a, l, MaxSent) /\ UNCHANGED <<stateVars, codecVars, libVars>>
    \/ \E a \in CliAddrs, d \in CliData :
          ClientWrite(a, d, MaxSent) /\ UNCHANGED <<stateVars, codecVars, libVars>>
    \/ ClientRecv /\ UNCHANGED <<stateVars, codecVars, libVars>>
    \/ ClientTimeout /\ UNCHANGED <<stateVars, codecVars, libVars>>
    \/ ServerRecv /\ UNCHANGED <<stateVars, codecVars, libVars>>
    \/ \E d \in RawRequests : RawSend(d) /\ UNCHANGED <<stateVars, codecVars, libVars>>
    \/ \E f \in InitFormats, a \in InitAddrs, d \in InitData :
          InitializeRegisters(f, a, d) /\ UNCHANGED <<stateVars, codecVars, libVars>>

\* One client, the server and its bank, other senders of datagrams.
SpecRbcp == Init /\ [][NextRbcp]_vars

\* Calls the client makes at most in the long run of SpecId: more than the 256
\* packet ids.
MaxIdCalls == 257
IdAddrs == {PyInt(Addr(0, 254)), PyInt(Addr(Limb - 1, 65280))}
IdLens == {PyInt(1), PyInt(256)}
IdData == {<<7>>}
StrayReplies == {<<0, 200, 0, 0, 0, 0, 0, 0>>}

NextId ==
    \/ \E a \in IdAddrs, l \in IdLens :
          ClientRead(a, l, MaxIdCalls) /\ UNCHANGED <<stateVars, codecVars, libVars>>
    \/ \E a \in IdAddrs, d \in IdData :
          ClientWrite(a, d, MaxIdCalls) /\ UNCHANGED <<stateVars, codecVars, libVars>>
    \/ ClientRecv /\ UNCHANGED <<stateVars, codecVars, libVars>>
    \/ ClientTimeout /\ srvInbox = <<>> /\ UNCHANGED <<stateVars, codecVars, libVars>>
    \/ ServerRecv /\ UNCHANGED <<stateVars, codecVars, libVars>>
    \/ \E d \in StrayReplies :
          StrayReply(d) /\ srvInbox = <<>> /\ UNCHANGED <<stateVars, codecVars, libVars>>

\* One client making call after call to the server, past the wrap of the id.
\* The client's timeout is longer than the server takes to answer: a call times
\* out, or a stray datagram is taken for the reply, only when the request or
\* its reply was lost.
SpecId == Init /\ [][NextId]_vars

\* Register files loaded into the bank, and the arguments of the bank's API.
BankFiles ==
    {[format |-> "text", address |-> Addr(0, 2), data |-> <<1, 2, 3>>],
     [format |-> "text", address |-> Addr(0, 3), data |-> <<7>>],
     [format |-> "bin", address |-> Addr(0, 4), data |-> <<9, 4>>]}
BankReads == {<<Addr(0, 3), 1>>, <<Addr(0, 3), 2>>, <<Addr(0, 3), 3>>}
BankWrites == {<<Addr(0, 3), <<8, 9>>>>, <<Addr(0, 4), <<8>>>>}
HookAddrs == {Addr(0, 3), Addr(0, 4)}
netVars ==
    <<srvUp, error_short_message, srvInbox, cliInbox, cur_packet_id, cur_wait_id,
      cliPc, cliRes, sent, nraw, srvLog>>

NextBank ==
    \/ \E f \in BankFiles :
          /\ InitializeRegisters(f.format, f.address, f.data)
          /\ bankRes' = NoBankRes
          /\ UNCHANGED <<stateVars, codecVars, write_callbacks, read_callbacks, daqVars, cuiVars, appVars>>
    \/ \E r \in BankReads :
          BankRead(r[1], r[2]) /\ UNCHANGED <<stateVars, codecVars, netVars, daqVars, cuiVars, appVars>>
    \/ \E w \in BankWrites :
          BankWrite(w[1], w[2]) /\ UNCHANGED <<stateVars, codecVars, netVars, daqVars, cuiVars, appVars>>
    \/ MergeAll /\ UNCHANGED <<stateVars, codecVars, netVars, daqVars, cuiVars, appVars>>
    \/ \E i \in 1 .. Len(registers), a \in HookAddrs :
          RegisterWriteCallback(i, a) /\ UNCHANGED <<stateVars, codecVars, netVars, daqVars, cuiVars, appVars>>
    \/ \E i \in 1 .. Len(registers), a \in HookAddrs :
          RegisterReadCallback(i, a) /\ UNCHANGED <<stateVars, codecVars, netVars, daqVars, cuiVars, appVars>>

\* A bank loaded from files in any order and used through its API.
SpecBank == Init /\ [][NextBank]_vars

\* The data units of the handlers tried.
DataUnits == {1, 3, 8}

NextDaq ==
    \/ \E u \in DataUnits :
          DaqStart(u) /\ UNCHANGED <<stateVars, codecVars, rbcpVars, bankVars, cuiVars, appVars>>
    \/ \E n \in 0 .. MaxChunk :
          DaqRecv(n) /\ UNCHANGED <<stateVars, codecVars, rbcpVars, bankVars, cuiVars, appVars>>

\* A DaqClient receiving a stream cut into chunks in every way.
SpecDaq == Init /\ [][NextDaq]_vars

\* The bytes and the chunks a session receives: letters and line terminators.
CuiBytes == {97, CR, LF}
CuiChunks == UNION {[1 .. n -> CuiBytes] : n \in 1 .. MaxChunk}

NextCui ==
    \/ \E chunk \in CuiChunks, continue \in BOOLEAN :
          /\ SessionRecv(chunk, continue)
          /\ UNCHANGED <<stateVars, codecVars, rbcpVars, bankVars, daqVars, appVars>>
    \/ SessionClosed /\ UNCHANGED <<stateVars, codecVars, rbcpVars, bankVars, daqVars, appVars>>

\* A session with a TextHandler receiving a stream cut into chunks in every way.
SpecCui == Init /\ [][NextCui]_vars

\* The lines clients send: the bytes of a line with its terminator, and the
\* names of the commands it asks for, in order.
SrvLines ==
    {[text |-> <<LF>>, cmds |-> <<>>],
     [text |-> <<SEMI, CR, LF>>, cmds |-> <<>>],
     [text |-> <<97, LF>>, cmds |-> <<(<<97>>)>>],
     [text |-> <<97, SEMI, SPACE>> \o CmdHelp \o <<CR, LF>>, cmds |-> <<(<<97>>), CmdHelp>>],
     [text |-> CmdState \o <<SPACE, SEMI, SEMI>> \o CmdHelp \o <<SPACE>> \o CmdXxx \o <<LF>>,
      cmds |-> <<CmdState, CmdHelp>>],
     [text |-> <<97, SEMI>> \o CmdClose \o <<SEMI, 97, LF>>,
      cmds |-> <<(<<97>>), CmdClose, (<<97>>)>>],
     [text |-> CmdXxx \o <<SEMI, 97, CR, LF>>, cmds |-> <<CmdXxx, (<<97>>)>>],
     [text |-> CmdExit \o <<LF>>, cmds |-> <<CmdExit>>]}
\* What one recv returns: one line, or two lines at once.
SrvChunks == {l.text : l \in SrvLines} \cup {<<97, LF>> \o CmdExit \o <<LF>>}
cuiOther == <<rest_byte_data, cuiRunning, cui_recvd, cui_data, cuiFind>>
notSrv == <<stateVars, codecVars, rbcpVars, bankVars, daqVars, cuiOther, spoolVars, auxVars>>

\* The steps of the server's thread and of the thread of session s.
SrvThread == (\E ok \in BOOLEAN : SrvBind(ok)) \/ SrvPoll \/ SrvStopping \/ SrvFinally
SessionThread(s) == SessionOnStart(s) \/ SessionOnData(s) \/ SessionFinally(s)

NextSrv ==
    \/ SrvStart /\ UNCHANGED notSrv
    \/ SrvStop /\ UNCHANGED notSrv
    \/ \E ok \in BOOLEAN : SrvBind(ok) /\ UNCHANGED notSrv
    \/ \E s \in SessionIds : SrvAccept(s) /\ UNCHANGED notSrv
    \/ SrvPoll /\ UNCHANGED notSrv
    \/ SrvStopping /\ UNCHANGED notSrv
    \/ SrvFinally /\ UNCHANGED notSrv
    \/ \E s \in SessionIds : SessionOnStart(s) /\ UNCHANGED notSrv
    \/ \E s \in SessionIds, chunk \in SrvChunks : SessionFind(s, chunk) /\ UNCHANGED notSrv
    \/ \E s \in SessionIds : SessionOnData(s) /\ UNCHANGED notSrv
    \/ \E s \in SessionIds : SessionFinally(s) /\ UNCHANGED notSrv

\* A CuiServer with a CommandHandlerEx, its sessions and their clients.
SpecSrv == Init /\ [][NextSrv]_vars

\* The same, where the server's thread and every session's thread take the
\* steps they can take.
FairSpecSrv ==
    /\ SpecSrv
    /\ WF_vars(SrvThread /\ UNCHANGED notSrv)
    /\ \A s \in SessionIds : WF_vars(SessionThread(s) /\ UNCHANGED notSrv)

\* The data units of the handlers of a spooled run.
SpoolUnits == {1, 2}
notSpool == <<stateVars, codecVars, rbcpVars, bankVars, cuiVars, srvVars, auxVars>>

\* The steps of the thread of DaqClient.run, of the caller of stop() and of
\* the spool worker that need nothing from outside.
RunThread == RunOnDaqStart \/ RunLeave(FALSE) \/ OnDaqStop
WorkerThread == (\E ok \in BOOLEAN : WorkerOpen(ok) \/ WorkerWrite(ok)) \/ WorkerGet \/ WorkerLeave

NextSpool ==
    \/ \E on_off \in BOOLEAN : SetRawSave(on_off) /\ UNCHANGED notSpool
    \/ DaqClientStart /\ UNCHANGED notSpool
    \/ DaqClientStop /\ UNCHANGED notSpool
    \/ DaqClientStopReturn /\ UNCHANGED notSpool
    \/ RunOnDaqStart /\ UNCHANGED notSpool
    \/ \E ok \in BOOLEAN, u \in SpoolUnits : RunConnect(ok, u) /\ UNCHANGED notSpool
    \/ \E n \in 1 .. MaxChunk : RunRecv(n) /\ UNCHANGED notSpool
    \/ \E err \in BOOLEAN : RunLeave(err) /\ UNCHANGED notSpool
    \/ OnDaqStop /\ UNCHANGED notSpool
    \/ \E ok \in BOOLEAN : WorkerOpen(ok) /\ UNCHANGED notSpool
    \/ WorkerGet /\ UNCHANGED notSpool
    \/ \E ok \in BOOLEAN : WorkerWrite(ok) /\ UNCHANGED notSpool
    \/ WorkerLeave /\ UNCHANGED notSpool

\* One run of a DaqClient, with or without raw save, and its spool worker.
SpecSpool == Init /\ [][NextSpool]_vars

\* The same, where every thread takes the steps it can take and connect
\* returns or raises.
FairSpecSpool ==
    /\ SpecSpool
    /\ WF_vars(RunThread /\ UNCHANGED notSpool)
    /\ WF_vars((\E ok \in BOOLEAN, u \in SpoolUnits : RunConnect(ok, u)) /\ UNCHANGED notSpool)
    /\ WF_vars(DaqClientStopReturn /\ UNCHANGED notSpool)
    /\ WF_vars(WorkerThread /\ UNCHANGED notSpool)

notClient == <<stateVars, codecVars, rbcpVars, bankVars, daqVars, cuiVars, srvVars, spoolVars, genVars, lifeVars, raceVars>>
NextClient ==
    \/ \E no_reply, prompt, closes \in BOOLEAN, reply \in CliTexts(MaxReply) :
          SendCommand(no_reply, reply, prompt, closes) /\ UNCHANGED notClient
    \/ \E n \in 1 .. MaxCliChunk : Receive(n) /\ UNCHANGED notClient
    \/ ReceiveClosed /\ UNCHANGED notClient

\* One send_command call of a CommandClient, the answer cut into recv chunks
\* in every way.
SpecClient == Init /\ [][NextClient]_vars

\* The same, where recv returns what the server has sent.
FairSpecClient ==
    /\ SpecClient
    /\ WF_vars((\E n \in 1 .. MaxCliChunk : Receive(n)) /\ UNCHANGED notClient)
    /\ WF_vars(ReceiveClosed /\ UNCHANGED notClient)

NextGen ==
    \E n \in 1 .. MaxUnitCount :
        CreateDataCall(n) /\ UNCHANGED <<stateVars, codecVars, rbcpVars, bankVars, daqVars,
                                        cuiVars, srvVars, spoolVars, clientVars, lifeVars, raceVars>>

\* The records a DataGenerator makes, one call after the other, from the
\* counter values of GenCounts on.
InitGens == InitLib /\ \E count \in GenCounts : InitGen(count)
SpecGen == InitGens /\ [][NextGen]_vars

notLife == <<stateVars, codecVars, rbcpVars, bankVars, daqVars, cuiVars, srvVars, spoolVars,
             clientVars, genVars, raceVars>>
noSrv == <<stateVars, codecVars, rbcpVars, bankVars, daqVars, cuiOther, spoolVars, auxVars>>
noSpool == <<stateVars, codecVars, rbcpVars, bankVars, cuiVars, srvVars, auxVars>>
\* The steps of the threads between start() and the end of run(), without
\* the data they handle.
StartSrvThread == (\E ok \in BOOLEAN : SrvBind(ok)) \/ SrvPoll \/ SrvStopping \/ SrvFinally
StartSessionThread == SessionOnStart(1) \/ SessionOnStartRaises(1) \/ SessionFinally(1)
StartDaqThread ==
    \/ RunOnDaqStart \/ RunLeave(FALSE) \/ OnDaqStop
    \/ \E ok \in BOOLEAN, u \in SpoolUnits : RunConnect(ok, u)
StartRbcpThread == (\E ok \in BOOLEAN : RbcpServerBind(ok)) \/ RbcpServerFinally

NextStart ==
    \/ SrvStart /\ UNCHANGED noSrv
    \/ SrvStopEarly /\ UNCHANGED noSrv
    \/ SrvStop /\ UNCHANGED noSrv
    \/ \E ok \in BOOLEAN : SrvBind(ok) /\ UNCHANGED noSrv
    \/ SrvAccept(1) /\ UNCHANGED noSrv
    \/ SrvPoll /\ UNCHANGED noSrv
    \/ SrvStopping /\ UNCHANGED noSrv
    \/ SrvFinally /\ UNCHANGED noSrv
    \/ SessionOnStart(1) /\ UNCHANGED noSrv
    \/ SessionOnStartRaises(1) /\ UNCHANGED noSrv
    \/ SessionFinally(1) /\ UNCHANGED noSrv
    \/ DaqClientStart /\ UNCHANGED noSpool
    \/ DaqClientStopEarly /\ UNCHANGED noSpool
    \/ DaqClientStop /\ UNCHANGED noSpool
    \/ DaqClientStopReturn /\ UNCHANGED noSpool
    \/ RunOnDaqStart /\ UNCHANGED noSpool
    \/ \E ok \in BOOLEAN, u \in SpoolUnits : RunConnect(ok, u) /\ UNCHANGED noSpool
    \/ \E err \in BOOLEAN : RunLeave(err) /\ UNCHANGED noSpool
    \/ OnDaqStop /\ UNCHANGED noSpool
    \/ RbcpServerStart /\ UNCHANGED notLife
    \/ RbcpServerStop /\ UNCHANGED notLife
    \/ \E ok \in BOOLEAN : RbcpServerBind(ok) /\ UNCHANGED notLife
    \/ RbcpServerFinally /\ UNCHANGED notLife

\* A CuiServer with one session, a DaqClient and an RbcpServer, each started
\* and stopped by its owner.
SpecStart == Init /\ [][NextStart]_vars

\* The same, where every started thread takes the steps it can take.
FairSpecStart ==
    /\ SpecStart
    /\ WF_vars(StartSrvThread /\ UNCHANGED noSrv)
    /\ WF_vars(StartSessionThread /\ UNCHANGED noSrv)
    /\ WF_vars(StartDaqThread /\ UNCHANGED noSpool)
    /\ WF_vars(StartRbcpThread /\ UNCHANGED notLife)

\* What the two threads read and write: bytes of the reserved region.
RaceAddrs == {Addr(Limb - 1, 0), Addr(Limb - 1, 1), Addr(0, 0)}
RaceData == {<<1>>, <<2>>, <<1, 2>>}
notRace ==
    <<stateVars, codecVars, bankVars, netVars, daqVars, cuiVars, srvVars, spoolVars,
      clientVars, genVars, lifeVars>>
NextBankThreads ==
    \/ \E t \in BankThreads, a \in RaceAddrs, n \in 1 .. 2 :
          ReadRegistersBy(t, a, n) /\ UNCHANGED notRace
    \/ \E t \in BankThreads, a \in RaceAddrs, d \in RaceData :
          WriteRegistersWrite(t, a, d) /\ UNCHANGED notRace
    \/ \E t \in BankThreads : WriteRegistersReadBack(t) /\ UNCHANGED notRace
    \/ \E t \in BankThreads : BankCallReturn(t) /\ UNCHANGED notRace

\* The RBCP listener thread and a session thread using one bank, a thread
\* switch being possible between any two statements.
SpecBankThreads == Init /\ [][NextBankThreads]_vars

(***************************************************************************)
(* Claims                                                                  *)
(***************************************************************************)
\* Thread t has returned from a call of op.
Finished(t, op) == thr[t].pc = "idle" /\ thr[t].op = op
\* Thread t is inside wait().
InWait(t) == thr[t].pc \in {"w_loop", "w_blocked"}
\* This step is thread t's call of transit().
TransitStepOf(t) ==
    /\ ncalls' = ncalls + 1
    /\ thr'[t].seq = ncalls'
    /\ thr'[t].op = "transit"

\* C1: the visible state never decreases, and transit(new) sets the state to new
\* and returns true exactly when new > current; otherwise it returns false and
\* leaves the state unchanged.
C1_TransitForwardOnly ==
    [][ /\ state' >= state
        /\ \A t \in Threads :
              TransitStepOf(t) =>
                 IF thr'[t].arg > state
                 THEN state' = thr'[t].arg /\ thr'[t].ret
                 ELSE state' = state /\ ~thr'[t].ret ]_vars

\* A transit that advanced the state, and one that was refused, have both happened.
C1_Witness ==
    \E t, u \in Threads :
        /\ Finished(t, "transit") /\ thr[t].ret /\ state = thr[t].arg
        /\ Finished(u, "transit") /\ ~thr[u].ret /\ thr[u].arg <= state

Callers == {t \in Threads : thr[t].op # "none"}
\* Several threads have each called transit once, with pairwise different values
\* (all above the initial state), and all calls have returned.
AllTransitDistinct ==
    /\ Cardinality(Callers) >= 2
    /\ ncalls = Cardinality(Callers)
    /\ \A t \in Callers : Finished(t, "transit")
    /\ \A t, u \in Callers : t # u => thr[t].arg # thr[u].arg
HighestRequested == CHOOSE v \in StateValues :
    /\ \E t \in Callers : thr[t].arg = v
    /\ \A t \in Callers : thr[t].arg <= v

\* C3 as stated: the final state is the highest value requested and every transit
\* that requested a lower value returned false.
C3_Original ==
    AllTransitDistinct =>
       /\ state = HighestRequested
       /\ \A t \in Callers : thr[t].arg < HighestRequested => ~thr[t].ret

\* C3 amended: the final state is the highest value requested, the transit that
\* requested it returned true, and a transit that requested a lower value returned
\* false exactly when a transit with a higher value had run before it.
C3_HighestWins ==
    AllTransitDistinct =>
       /\ state = HighestRequested
       /\ \A t \in Callers :
             thr[t].ret <=>
                ~\E u \in Callers : thr[u].seq < thr[t].seq /\ thr[u].arg > thr[t].arg

\* Transits with different values raced and the one with the lower value ran
\* after the highest and returned false.
C3_Witness ==
    /\ AllTransitDistinct
    /\ \E t \in Callers : thr[t].arg < state /\ ~thr[t].ret

\* 0 <= a <= 0xFFFFFFFF, for an address a
FitsU32(a) == a[1] >= 0 /\ a[1] < Limb

\* C9: _make_header raises ValueError exactly when address or length is not an
\* integer, is negative, length > 255, address > 0xFFFFFFFF or address + length >
\* 0xFFFFFFFF; otherwise it yields the 8 bytes 0xFF, 0xC0 (read) or 0x80 (write),
\* id, length and the address as 4 big-endian bytes.
C9_MakeHeader ==
    hdrCall.called =>
       LET a == hdrCall.a
           l == hdrCall.l
           d == hdrCall.out.data
           rejected ==
              \/ ~a.int
              \/ ~l.int
              \/ a.v[1] < 0
              \/ l.v < 0
              \/ l.v > 255
              \/ a.v[1] >= Limb
              \/ ~FitsU32(<<a.v[1] + (a.v[2] + l.v) \div Limb, 0>>)
       IN  /\ (hdrCall.out.err = "ValueError") <=> rejected
           /\ ~rejected =>
                 /\ hdrCall.out.err = "none"
                 /\ Len(d) = 8
                 /\ d[1] = 255
                 /\ d[2] = (IF hdrCall.rw = HEADER_READ THEN 192 ELSE 128)
                 /\ d[3] = hdrCall.id
                 /\ d[4] = l.v
                 /\ \A i \in 5 .. 8 : d[i] \in 0 .. 255
                 /\ (d[5] * 256 + d[6]) = a.v[1]
                 /\ (d[7] * 256 + d[8]) = a.v[2]

\* A call with address 0xFFFFFF01 and length 255 was rejected: only their sum
\* passes 0xFFFFFFFF.
C9_Witness ==
    /\ hdrCall.called
    /\ hdrCall.a = PyInt(Addr(Limb - 1, 65281))
    /\ hdrCall.l = PyInt(255)
    /\ hdrCall.out.err = "ValueError"
\* C10 as stated: _check_packet raises the protocol error (RbcpError) when the
\* packet is shorter than 8 bytes, its version byte is not 0xFF or its id differs
\* from wait_id, raises RbcpBusError when the low bit of the command byte is 1, and
\* accepts every other packet.
C10_Original ==
    chkCall.called =>
       LET p == chkCall.packet
           short == Len(p) < 8
       IN  chkCall.out =
              IF short \/ p[1] # 255 \/ p[3] # chkCall.wait_id THEN "RbcpError"
              ELSE IF p[2] % 2 = 1 THEN "RbcpBusError"
              ELSE "ok"
\* The step in which the server handles the datagram at the head of its queue:
\* the only step that shortens the queue.
ServerStep == Len(srvInbox') < Len(srvInbox)
\* [address, address + length) lies within the region.
Contained(reg, address, length) ==
    /\ AddrLE(reg.start, address)
    /\ AddrLE(AddrAdd(address, length), AddrAdd(reg.start, reg.size))
InSomeRegion(regs, req) ==
    \E i \in 1 .. Len(regs) : Contained(regs[i], PacketAddress(req), req[4])
EchoesId(req, reply) == reply[3] = req[3]
EchoesAddress(req, reply) == SubSeq(reply, 5, 8) = SubSeq(req, 5, 8)

\* C4, as stated: whenever the server handles a client's write(addr, B) whose
\* range lies within a region of the bank, the server stays up and a read of
\* that range gives B.  Violated: a region loaded from an <address>.bin file
\* holds a bytes object, and the write raises TypeError in the server thread.
C4_Original ==
    [][(/\ ServerStep
        /\ Head(srvInbox).src = "client"
        /\ Head(srvInbox).data[2] = 128
        /\ InSomeRegion(registers, Head(srvInbox).data))
       => LET req == Head(srvInbox).data
          IN  /\ srvUp'
              /\ ReadRegisters(registers', PacketAddress(req), req[4])
                    = [st |-> "ok", data |-> Drop(req, 8)]]_vars

\* C5: when the server handles a client's read or write whose range lies
\* within no region of the bank, it leaves every region as it was and replies
\* with command 0xC9 (read) or 0x89 (write); and the client call that receives
\* the reply to such a request ends with RbcpBusError.
C5_BusError ==
    /\ [][(/\ ServerStep
           /\ Head(srvInbox).src = "client"
           /\ ~InSomeRegion(registers, Head(srvInbox).data))
          => /\ registers' = registers
             /\ srvLog'.kind = "replied"
             /\ srvLog'.reply[2] = IF Head(srvInbox).data[2] = 192 THEN 201 ELSE 137]_vars
    /\ []((cliPc = "idle" /\ cliRes.tag = sent /\ cliRes.oor)
             => cliRes.kind = "RbcpBusError")
C5_Witness ==
    /\ cliPc = "idle" /\ cliRes.tag = sent /\ cliRes.oor
    /\ cliRes.kind = "RbcpBusError"
    /\ sent = 2 /\ Len(registers) = 2

\* C6, as stated: every reply carries the packet id, the address and the
\* length byte of its request.  Violated by every bus-error reply to a request
\* whose length byte differs from the number of its payload bytes, a read of
\* a positive length among them.
C6_Original ==
    srvLog.kind = "replied"
       => /\ EchoesId(srvLog.req, srvLog.reply)
          /\ EchoesAddress(srvLog.req, srvLog.reply)
          /\ srvLog.reply[4] = srvLog.req[4]
\* C6, amended: every reply carries the packet id and the address of its
\* request; a successful reply carries the request's length byte, a bus-error
\* reply the number of payload bytes of the request, which it returns.
C6_Echo ==
    srvLog.kind = "replied"
       => /\ EchoesId(srvLog.req, srvLog.reply)
          /\ EchoesAddress(srvLog.req, srvLog.reply)
          /\ srvLog.reply[4] =
                IF srvLog.reply[2] \in {201, 137}
                THEN Len(srvLog.req) - HEADER_SIZE
                ELSE srvLog.req[4]
          /\ srvLog.reply[2] \in {201, 137}
                => Drop(srvLog.reply, HEADER_SIZE) = Drop(srvLog.req, HEADER_SIZE)
C6_Witness ==
    /\ srvLog.kind = "replied" /\ srvLog.reply[2] = 201
    /\ srvLog.req[4] = 3 /\ srvLog.reply[4] = 0 /\ srvLog.reply[3] = 1

\* C7, as stated (the reply): the reply to an accepted write is the 0x88
\* header followed by exactly the bytes written.  Violated by a write datagram
\* with more payload bytes than its length byte.
C7_Original ==
    (srvLog.kind = "replied" /\ srvLog.reply[2] = 136)
       => Drop(srvLog.reply, HEADER_SIZE)
             = SubSeq(srvLog.req, HEADER_SIZE + 1,
                      HEADER_SIZE + Min(srvLog.req[4], Len(srvLog.req) - HEADER_SIZE))
\* C7, amended: for an accepted write the server writes the first `length`
\* payload bytes (all of them when there are fewer) at `address` and nothing
\* else, and its reply is the 0x88 header with the request's id, length byte
\* and address, followed by the whole payload of the request.
C7_WriteReply ==
    [][(ServerStep /\ srvLog'.kind = "replied" /\ srvLog'.reply[2] = 136)
       => LET req == srvLog'.req
              n == Min(req[4], Len(req) - HEADER_SIZE)
              i == First({j \in 1 .. Len(registers) :
                            Contained(registers[j], PacketAddress(req), n)})
              off == AddrDiff(PacketAddress(req), registers[i].start)
          IN  /\ srvLog'.reply = <<255, 136, req[3], req[4]>> \o SubSeq(req, 5, 8)
                                    \o Drop(req, HEADER_SIZE)
              /\ Len(registers') = Len(registers)
              /\ \A k \in 1 .. n :
                    MemAt(registers'[i].mem, off + k - 1) = req[HEADER_SIZE + k]
              /\ \A j \in 1 .. Len(registers) :
                    \A o \in DOMAIN registers[j].mem \union DOMAIN registers'[j].mem :
                       (j # i \/ o < off \/ o >= off + n)
                          => MemAt(registers'[j].mem, o) = MemAt(registers[j].mem, o)]_vars
C7_Witness ==
    /\ srvLog.kind = "replied"
    /\ srvLog.req = <<255, 128, 5, 1, 255, 255, 255, 0, 3, 4>>
    /\ srvLog.reply[2] = 136
    /\ MemAt(registers[1].mem, 65280) = 3 /\ MemAt(registers[1].mem, 65281) = 0

\* C8: the id counter is the number of requests sent so far modulo 256, the
\* request sent n-th carries id (n - 1) mod 256, the end of a call (reply of any
\* kind, or timeout) leaves the counter alone, and a call rejected with
\* ValueError sends nothing and leaves the counter alone.
C8_PacketIds ==
    /\ [](cur_packet_id = sent % 256)
    /\ [](cliPc = "recv" => cur_wait_id = (sent - 1) % 256)
    /\ [](\A i \in 1 .. Len(srvInbox) :
             srvInbox[i].data[3] = (srvInbox[i].tag - 1) % 256)
    /\ [][sent' # sent
            => /\ sent' = sent + 1
               /\ cur_packet_id' = (cur_packet_id + 1) % 256
               /\ cliPc' = "recv"]_vars
    /\ [][(cliPc = "recv" /\ cliPc' = "idle")
            => /\ cur_packet_id' = cur_packet_id
               /\ cliRes'.kind \in {"ok", "RbcpBusError", "RbcpError", "RbcpTimeout"}]_vars
    /\ [][(cliRes' # cliRes /\ cliRes'.kind = "ValueError")
            => UNCHANGED <<cur_packet_id, srvInbox, cliInbox, sent, cliPc>>]_vars
C8_Witness ==
    /\ sent = 257 /\ cliPc = "recv" /\ cur_wait_id = 0 /\ cur_packet_id = 1
    /\ srvInbox # <<>> /\ srvInbox[Len(srvInbox)].data[3] = 0

\* C11, as stated: every call of the client that ends by consuming a datagram
\* of the server consumed the reply to its own request, the latest request
\* sent.  Violated: after a call has timed out, the next call consumes the late
\* reply to the timed-out call.
C11_Original ==
    (/\ cliPc = "idle"
     /\ cliRes.kind \in {"ok", "RbcpBusError", "RbcpError"}
     /\ cliRes.tag > 0)
       => cliRes.tag = sent

\* The regions whose range holds [address, address + length), by index.
Holders(regs, address, length) ==
    {i \in 1 .. Len(regs) : Contained(regs[i], address, length)}
Lowest(S) == CHOOSE i \in S : \A j \in S : i <= j
\* The byte a region holds at an address within its range.
ByteAt(reg, address) == MemAt(reg.mem, AddrDiff(address, reg.start))
\* Two regions that neither overlap nor are byte-adjacent: a gap lies between.
Apart(r1, r2) ==
    \/ AddrLT(AddrAdd(r1.start, r1.size), r2.start)
    \/ AddrLT(AddrAdd(r2.start, r2.size), r1.start)

\* C12: read_registers / write_registers fail with VirtualRegisterOutOfRange
\* exactly when no region holds the whole range, and otherwise act on the
\* first region in insertion order that holds it and on no other: a read
\* returns that region's bytes, a write changes that region's bytes at the
\* range (or raises there, leaving the bank unchanged).
C12_FirstRegion ==
    bankRes.op \in {"read", "write"}
       => LET regs == bankRes.before
              hs == Holders(regs, bankRes.address, bankRes.length)
              i == Lowest(hs)
          IN  IF hs = {}
              THEN bankRes.st = "OutOfRange" /\ registers = regs
              ELSE /\ bankRes.st # "OutOfRange"
                   /\ bankRes.op = "read"
                         => /\ bankRes.st = "ok"
                            /\ registers = regs
                            /\ bankRes.data =
                                  [k \in 1 .. bankRes.length |->
                                      ByteAt(regs[i], AddrAdd(bankRes.address, k - 1))]
                   /\ bankRes.op = "write"
                         => /\ Len(registers) = Len(regs)
                            /\ \A j \in 1 .. Len(regs) : j # i => registers[j] = regs[j]
                            /\ bankRes.st = "ok"
                                  => /\ bankRes.data = bankRes.arg
                                     /\ \A k \in 1 .. bankRes.length :
                                           ByteAt(registers[i], AddrAdd(bankRes.address, k - 1))
                                              = bankRes.arg[k]
                            /\ bankRes.st # "ok"
                                  => /\ registers = regs
                                     /\ bankRes.st \in {"TypeError", "IndexError"}
\* A read of [3, 5) refused by a bank that holds [3, 4) and [4, 6) unmerged.
C12_Witness ==
    /\ bankRes.op = "read" /\ bankRes.st = "OutOfRange"
    /\ bankRes.address = Addr(0, 3) /\ bankRes.length = 2
    /\ \E i, j \in 1 .. Len(registers) :
          /\ registers[i].start = Addr(0, 3) /\ registers[i].size = 1
          /\ registers[j].start = Addr(0, 4) /\ registers[j].size = 2

\* C13: after merge_registers() every two regions of the bank lie apart,
\* neither overlapping nor byte-adjacent.
C13_NoOverlapAfterMerge ==
    bankRes.op = "merge"
       => \A i, j \in 1 .. Len(registers) :
             i < j => Apart(registers[i], registers[j])
C13_Witness ==
    /\ bankRes.op = "merge"
    /\ Len(bankRes.before) = 4
    /\ bankRes.before[2].start = Addr(0, 3) /\ bankRes.before[3].start = Addr(0, 4)
    /\ Len(registers) = 2

\* C14: merge_registers() on a bank whose two loaded regions overlap or are
\* byte-adjacent leaves one region in their place, from the lower start to the
\* higher end, holding at each address the byte of the later-listed region
\* where it has one and the byte of the earlier-listed region elsewhere.
C14_MergeTwo ==
    (/\ bankRes.op = "merge"
     /\ Len(bankRes.before) = 3
     /\ ~Apart(bankRes.before[2], bankRes.before[3]))
       => LET r1 == bankRes.before[2]
              r2 == bankRes.before[3]
              m == registers[2]
          IN  /\ Len(registers) = 2
              /\ registers[1] = bankRes.before[1]
              /\ m.start = (IF AddrLE(r1.start, r2.start) THEN r1.start ELSE r2.start)
              /\ AddrAdd(m.start, m.size) =
                    (IF AddrLE(AddrAdd(r1.start, r1.size), AddrAdd(r2.start, r2.size))
                     THEN AddrAdd(r2.start, r2.size) ELSE AddrAdd(r1.start, r1.size))
              /\ \A o \in 0 .. m.size - 1 :
                    LET a == AddrAdd(m.start, o)
                    IN  MemAt(m.mem, o) =
                           IF Contained(r2, a, 1) THEN ByteAt(r2, a) ELSE ByteAt(r1, a)
C14_Witness ==
    /\ bankRes.op = "merge"
    /\ Len(bankRes.before) = 3
    /\ bankRes.before[2].start = Addr(0, 2) /\ bankRes.before[3].start = Addr(0, 3)
    /\ bankRes.before[2].mem = MemOf(<<1, 2, 3>>)
    /\ Len(registers) = 2
    /\ registers[2].size = 3 /\ registers[2].mem = MemOf(<<1, 7, 3>>)

\* C15: merge_registers() called right after merge_registers() leaves the list
\* of regions as it is.
C15_MergeIdempotent ==
    [][(bankRes.op = "merge" /\ bankRes'.op = "merge") => registers' = registers]_vars
C15_Witness ==
    /\ bankRes.op = "merge"
    /\ bankRes.before = registers
    /\ Len(registers) = 2 /\ registers[2].start = Addr(0, 2) /\ registers[2].size = 4

\* C16, as stated: every address the bank could read before merge_registers()
\* reads as the same byte after it.  Violated where two regions overlap with
\* different bytes: the earlier-listed region serves the read before the
\* merge, the later-listed region's byte is kept by the merge.
ProbeAddrs == {Addr(0, o) : o \in 0 .. 7}
C16_Original ==
    bankRes.op = "merge"
       => \A a \in ProbeAddrs :
             ReadRegisters(bankRes.before, a, 1).st = "ok"
                => ReadRegisters(registers, a, 1) = ReadRegisters(bankRes.before, a, 1)

\* C17, as stated: a write calls the hook of every hooked address it covers,
\* in address order, with the address and the byte written to that address.
\* Violated when the write starts above the region's start: the byte passed
\* is taken from the data at the offset of the address in the region.
C17_Original ==
    (bankRes.op = "write" /\ bankRes.st # "OutOfRange")
       => LET i == Lowest(Holders(bankRes.before, bankRes.address, bankRes.length))
              covered == {k \in 1 .. bankRes.length :
                             <<i, AddrAdd(bankRes.address, k - 1)>> \in write_callbacks}
          IN  /\ bankRes.st # "IndexError"
              /\ Len(bankRes.calls) = Cardinality(covered)
              /\ \A k \in covered :
                    \E n \in 1 .. Len(bankRes.calls) :
                       bankRes.calls[n] = <<AddrAdd(bankRes.address, k - 1), bankRes.arg[k]>>

\* C18: every buffer on_daq_data gets holds a positive whole number of data
\* units; fewer bytes than one unit are held back; the bytes delivered so far
\* and the bytes held back are, in order, the bytes received so far, the last
\* buffer being the last bytes delivered; and the handler's byte count is a
\* multiple of the data unit.
C18_RecordAlignment ==
    data_unit > 0
       => /\ daq_last # <<>> => Len(daq_last) % data_unit = 0
          /\ Len(byte_array) < data_unit
          /\ daq_data_bytes % data_unit = 0
          /\ daq_data_bytes + Len(byte_array) = daq_recvd
          /\ byte_array = [i \in 1 .. Len(byte_array) |-> daq_data_bytes + i]
          /\ daq_last = [i \in 1 .. Len(daq_last) |-> daq_data_bytes - Len(daq_last) + i]
\* A second buffer of unit 3 made of two bytes held back and one byte of the
\* next chunk, two more bytes being held back.
C18_Witness ==
    /\ data_unit = 3
    /\ daq_last = <<4, 5, 6>>
    /\ byte_array = <<7, 8>>

\* The number of bytes up to the end of the earliest line terminator of buf
\* (CR LF counting as one terminator), -1 when buf holds none.
EarliestTerminatorEnd(buf) ==
    LET at == {i \in 1 .. Len(buf) : buf[i] \in {CR, LF}}
        p == CHOOSE i \in at : \A j \in at : i <= j
    IN  IF at = {} THEN -1
        ELSE IF buf[p] = CR /\ p < Len(buf) /\ buf[p + 1] = LF THEN p + 1
        ELSE p

\* C19, as stated: find_delimiter_position returns the index just past the
\* earliest line terminator, -1 when there is none.  Violated by a buffer in
\* which a CR LF follows an earlier LF or CR, or an LF follows an earlier CR:
\* CR LF is searched first in the whole buffer, then LF, then CR.
C19_Original ==
    cuiFind.called => cuiFind.pos = EarliestTerminatorEnd(cuiFind.byte_data)

\* C20: while the session runs, the bytes on_data has got, in order, followed
\* by the bytes held in _rest_byte_data are the bytes received so far.
C20_NoByteLost ==
    cuiRunning => cui_data \o rest_byte_data = cui_recvd
\* A line that arrived in two chunks, the second chunk holding a second line.
C20_Witness ==
    /\ cuiRunning
    /\ cui_recvd = <<97, LF, 97, LF>>
    /\ cuiFind.byte_data = <<97, LF, 97, LF>>
    /\ cui_data = <<97, LF>>
    /\ rest_byte_data = <<97, LF>>

\* C21: every reply line a session gets ends with the line terminator that
\* session's own input was last found to use, whatever the other sessions
\* of the server receive meanwhile.
C21_Original ==
    \A i \in 1 .. Len(srvOut.items) :
        srvOut.items[i].kind = "line" => srvOut.items[i].end = srvOut.det

\* The commands of message byte_data, when it is one of the lines clients
\* send; a command returns true unless it is close, exit or the raising xxx.
IsLine(byte_data) == \E l \in SrvLines : l.text = byte_data
CmdsOf(byte_data) == (CHOOSE l \in SrvLines : l.text = byte_data).cmds
ReturnsTrue(name) == name \notin {CmdClose, CmdExit, CmdXxx}
\* The number of commands of cmds that run: all, or up to the first that
\* does not return true.
Ran(cmds) ==
    LET stops == {k \in 1 .. Len(cmds) : ~ReturnsTrue(cmds[k])}
    IN  IF stops = {} THEN Len(cmds) ELSE CHOOSE k \in stops : \A j \in stops : k <= j
AllTrue(cmds) == \A k \in 1 .. Len(cmds) : ReturnsTrue(cmds[k])
Prompts(items) == {i \in 1 .. Len(items) : items[i].kind = "prompt"}

\* C22: a message whose commands all return true (none, or unknown ones,
\* too) gets exactly one prompt, written after all its reply lines, and
\* on_data returns before the next message is looked at; the commands run
\* left to right, each writing at least a line, and once one returns false
\* the others do not run and no prompt is written.
C22_PromptAfterReplies ==
    (srvOut.s # 0 /\ IsLine(srvOut.byte_data)) =>
        LET cmds == CmdsOf(srvOut.byte_data)
            items == srvOut.items
        IN  /\ srvOut.ret = AllTrue(cmds)
            /\ AllTrue(cmds) => Prompts(items) = {Len(items)}
            /\ ~AllTrue(cmds) => Prompts(items) = {}
            /\ {items[i].n : i \in 1 .. Len(items) \ Prompts(items)} = 1 .. Ran(cmds)
            /\ \A i \in 1 .. Len(items) \ Prompts(items) :
                  /\ items[i].by = cmds[items[i].n]
                  /\ i > 1 => items[i - 1].n <= items[i].n
            /\ srvOut.ret => sess[srvOut.s].pc = "loop"

C22_Witness ==
    /\ srvOut.s # 0
    /\ srvOut.byte_data = <<97, SEMI, SPACE>> \o CmdHelp \o <<CR, LF>>
    /\ Len(srvOut.items) = 7
    /\ srvOut.items[7] = Prompt

\* The call of on_data made in the last step ran a command that raised.
Raised ==
    /\ srvOut.s # 0
    /\ IsLine(srvOut.byte_data)
    /\ LET cmds == CmdsOf(srvOut.byte_data)
       IN  ~AllTrue(cmds) /\ cmds[Ran(cmds)] = CmdXxx

\* C23: when a command raises, the last thing written is the line
\* NG:Error occurred (...), no prompt is written and on_data returns false;
\* the step changes neither the server's state nor the exit flag; and the
\* session goes on to close its socket and to be STOPPED.
C23_RaiseEndsSession ==
    /\ [](Raised =>
            /\ ~srvOut.ret
            /\ Prompts(srvOut.items) = {}
            /\ srvOut.items[Len(srvOut.items)].text.fmt = "NG:Error occurred (%s)"
            /\ sess[srvOut.s].ended = "error")
    /\ [][Raised' => srv_state' = srv_state /\ exit_flag' = exit_flag
                     /\ srv_pc' = srv_pc /\ sessions' = sessions]_vars
    /\ \A s \in SessionIds :
          (sess[s].ended = "error") ~>
              (sess[s].state = THREAD_STOPPED /\ sess[s].sock = "None")

C23_Witness ==
    \E s \in SessionIds :
        /\ sess[s].ended = "error"
        /\ sess[s].state = THREAD_STOPPED
        /\ sess[s].sock = "None"
        /\ srv_state = THREAD_RUNNING
        /\ ~exit_flag

Listed(s) == \E i \in 1 .. Len(sessions) : sessions[i] = s

\* C24: the step in which a session runs close changes nothing of the
\* server (it stays RUNNING and goes on accepting) nor of the other
\* sessions; the session has released its socket, goes on to be STOPPED and
\* is in the end no more in the server's list.
C24_CloseEndsOneSession ==
    /\ [][\A s \in SessionIds :
            (sess[s].ended = "" /\ sess'[s].ended = "close") =>
                /\ srv_state' = srv_state /\ srv_pc' = srv_pc
                /\ server_sock' = server_sock /\ sessions' = sessions
                /\ exit_flag' = exit_flag
                /\ sess'[s].sock = "None"
                /\ \A t \in SessionIds \ {s} : sess'[t] = sess[t]]_vars
    /\ \A s \in SessionIds :
          (sess[s].ended = "close") ~>
              (sess[s].state = THREAD_STOPPED /\ sess[s].sock = "None" /\ ~Listed(s))

C24_Witness ==
    /\ sess[1].ended = "close"
    /\ sess[1].state = THREAD_STOPPED
    /\ ~Listed(1)
    /\ srv_state = THREAD_RUNNING
    /\ Listed(2)
    /\ sess[2].state = THREAD_RUNNING

\* C25: a session running exit sets the exit flag, which is never cleared;
\* the server then leaves its loop, calls stop() on every session in its
\* list, empties the list and is STOPPED in the end.
C25_ExitStopsServer ==
    /\ [](\A s \in SessionIds : sess[s].ended = "exit" => exit_flag)
    /\ [][exit_flag => exit_flag']_vars
    /\ [][(srv_pc # "finally" /\ srv_pc' = "finally") =>
            /\ sessions' = <<>>
            /\ \A s \in SessionIds :
                  Listed(s) => s \in stop_called' /\ sess'[s].state >= THREAD_STOPPING]_vars
    /\ exit_flag ~> (srv_state = THREAD_STOPPED /\ sessions = <<>> /\ srv_pc = "done")

C25_Witness ==
    /\ sess[1].ended = "exit"
    /\ srv_state = THREAD_STOPPED
    /\ sessions = <<>>
    /\ 2 \in stop_called
    /\ 0 \notin stop_called
    /\ sess[2].ended = "stop"

\* C26: when connect fails, on_daq_error has been called once and
\* on_daq_data never is, the exception is in _error, the state has not been
\* and will not be RUNNING, and it is STOPPED in the end.
C26_ConnectFailure ==
    /\ [](daq_error # "None" =>
            /\ daq_calls.on_daq_error = 1
            /\ daq_calls.on_daq_data = 0
            /\ ~daq_calls.running
            /\ daq_state # THREAD_RUNNING)
    /\ [](daq_pc \in {"on_error"} => daq_error # "None")
    /\ (daq_error # "None") ~> (daq_state = THREAD_STOPPED /\ daq_pc = "done")

C26_Witness ==
    /\ daq_error = "OSError"
    /\ daq_state = THREAD_STOPPED
    /\ daq_calls.on_daq_error = 1
    /\ raw_data_queue.armed
    /\ raw_pc = "exit"

\* C27, as stated: the raw-spool queue has a fixed capacity which its depth
\* never exceeds.  Violated as soon as raw save is armed: the queue is made
\* by Queue(), whose maxsize 0 stands for no upper bound, so that put never
\* raises Full and every buffer is queued.
C27_Original ==
    raw_data_queue.armed =>
        QueueMaxsize > 0 /\ Len(raw_data_queue.items) <= QueueMaxsize

RECURSIVE Flat(_)
Flat(bufs) == IF bufs = <<>> THEN <<>> ELSE Head(bufs) \o Flat(Tail(bufs))
\* The bytes of all the buffers passed to on_daq_data, in order: the stream
\* up to the last whole unit received.
Passed == [i \in 1 .. daq_data_bytes |-> i]

C29_Original ==
    /\ [](stop_pc # "idle" => daq_state >= THREAD_STOPPING)
    /\ [][stop_pc # "idle" => daq_state' # THREAD_RUNNING]_vars
    /\ (stop_pc # "idle") ~> (daq_state = THREAD_STOPPED /\ daq_sock # "open")

\* C30, as stated: a call of DaqClient.stop() returns.  Violated in the same
\* case: stop() joins run() without timeout, and run() is in on_daq_stop,
\* waiting for a queue that nothing empties.
C30_Original == (stop_pc = "join") ~> (stop_pc = "returned")

\* C31, as stated: send_command with no_reply false returns the reply text
\* before the prompt once the server has sent the prompt, however the stream
\* is cut into recv chunks; it returns None with no_reply, or when the server
\* closes without prompt.  Violated when the prompt is cut by a chunk
\* boundary: _receive looks for the prompt in each chunk alone, so it goes on
\* waiting, and returns None when the server closes later.
C31_Original ==
    /\ [](cc_pc = "returned" =>
            cc_received = IF ~cc_sent.no_reply /\ cc_sent.prompt
                          THEN <<cc_sent.reply>> ELSE <<>>)
    /\ (cc_pc = "receive" /\ cc_sent.prompt) ~> (cc_pc = "returned")

\* The counter n data units after count: it goes from 2^32 - 2 to 0.
RECURSIVE CountPlus(_, _)
CountPlus(count, n) ==
    IF n = 0 THEN count
    ELSE LET next == AddrAdd(count, 1)
         IN  CountPlus(IF next = AddrMax THEN Addr(0, 0) ELSE next, n - 1)

\* C32, as stated: a record of create_data(n) has data_unit * n bytes, each of
\* its n data units starts with 0xA5 and holds the big-endian counter (in its
\* bytes 4 to 7), the counter going up by one per data unit, within and
\* across records, and wrapping to 0 at 2^32 - 1.  Violated by every record:
\* the loop leaves the last data unit zero and does not count it.
C32_Original ==
    gen_call.n > 0 =>
        /\ Len(gen_data) = GenDataUnit * gen_call.n
        /\ \A u \in 0 .. gen_call.n - 1 :
              /\ gen_data[GenDataUnit * u + 1] = 165
              /\ SubSeq(gen_data, GenDataUnit * u + 5, GenDataUnit * u + 8)
                    = AddrBytes(CountPlus(gen_call.count, u))
        /\ gen_count = CountPlus(gen_call.count, gen_call.n)

\* A terminated line is among these bytes.
HasLine(byte_data) == \E i \in 1 .. Len(byte_data) : byte_data[i] \in {CR, LF}

\* C33, as stated: a terminated line a running session has received is
\* dispatched to on_data without further bytes from the peer.  Violated when
\* one recv returns two lines: the second stays in _rest_byte_data, which is
\* looked at only after the next recv.
C33_Original ==
    \A s \in SessionIds :
        (sess[s].state = THREAD_RUNNING /\ sess[s].pc = "loop" /\ HasLine(sess[s].rest))
            ~> (~HasLine(sess[s].rest) \/ sess[s].state # THREAD_RUNNING)

\* C34: start() of a CuiServer, SessionThread, DaqClient or RbcpServer
\* returns: once the thread is started its state gets to RUNNING or beyond
\* (STOPPED after a failure before RUNNING), also when stop() was called
\* before or during start(); and a thread whose start failed is STOPPED.
C34_StartReturns ==
    /\ (srv_pc # "none") ~> StartReturns(srv_pc, srv_state)
    /\ (sess[1].pc # "none") ~> StartReturns(sess[1].pc, sess[1].state)
    /\ (daq_pc # "none") ~> StartReturns(daq_pc, daq_state)
    /\ (rbcp_pc # "none") ~> StartReturns(rbcp_pc, rbcp_state)
    /\ [](srv_pc = "done" => srv_state = THREAD_STOPPED)
    /\ [](sess[1].ended = "on_start" /\ sess[1].pc = "done" => sess[1].state = THREAD_STOPPED)
    /\ [](daq_error # "None" /\ daq_pc = "done" => daq_state = THREAD_STOPPED)
    /\ [](rbcp_pc = "done" => rbcp_state = THREAD_STOPPED)

\* All four starts have returned after a failure or an early stop: the bind
\* of the CuiServer was never done as it was stopped before start(), the
\* session's on_start raised, the connect failed, the RbcpServer's bind failed.
C34_Witness ==
    /\ srv_pc = "done" /\ srv_state = THREAD_STOPPED /\ sess[1].pc = "done"
    /\ sess[1].ended = "on_start" /\ sess[1].state = THREAD_STOPPED
    /\ daq_error # "None" /\ daq_state = THREAD_STOPPED
    /\ rbcp_pc = "done" /\ rbcp_state = THREAD_STOPPED

\* C35: while the server is in its loop a listed session that is STOPPED
\* gets removed from _sessions, and a cleanup pass removes STOPPED sessions
\* only and leaves the order of the others, also with two sessions STOPPED at
\* one pass (the second is removed one pass later) and with accepts between.
C35_CleanupRemovesStopped ==
    /\ \A s \in SessionIds : (Listed(s) /\ sess[s].state = THREAD_STOPPED) ~> ~Listed(s)
    /\ [][(srv_pc' = "loop" /\ sessions' # sessions /\ Len(sessions') <= Len(sessions)) =>
            /\ \A s \in SessionIds :
                  (Listed(s) /\ ~Listed(s)') => sess[s].state = THREAD_STOPPED
            /\ \E i \in 1 .. Len(sessions) :
                  /\ sess[sessions[i]].state = THREAD_STOPPED
                  /\ sessions' = DeleteAt(sessions, i)]_vars

\* Both sessions were STOPPED at one pass, which removed the first only.
C35_Witness ==
    /\ srv_state = THREAD_RUNNING
    /\ srv_pc = "loop"
    /\ sessions = <<2>>
    /\ sess[1].state = THREAD_STOPPED
    /\ sess[2].state = THREAD_STOPPED
    /\ ~exit_flag

\* C36, as stated: the accesses of the two threads to the bank do not
\* interleave, so that write_registers returns the data it has written.
\* Violated: nothing serializes the threads, and a write of the other thread
\* between write_bytes and read_bytes changes what is read back.
C36_Original ==
    \A t \in BankThreads :
        (bank_thr[t].pc = "done" /\ bank_thr[t].op = "write") =>
            bank_thr[t].read_back = bank_thr[t].data

\* The hooks cbs, each at an address of its region, are after the step hooks
\* at the same address of a region that holds it.
HooksKept(cbs, after) ==
    \A c \in cbs :
        CheckAddressRange(registers[c[1]], c[2], 1) =>
            \E d \in after : d[2] = c[2] /\ CheckAddressRange(registers'[d[1]], d[2], 1)

\* C37, as stated: merge_registers() keeps the write hooks and the read hooks
\* of the regions it merges.  Violated: register1.merge(register2) takes
\* register2's bytes only, and register2 is deleted with its hooks.
C37_Original ==
    [][bankRes'.op = "merge" =>
          /\ HooksKept(write_callbacks, write_callbacks')
          /\ HooksKept(read_callbacks, read_callbacks')]_vars

\* C38, as stated: write_registers calls no read hook.  Violated:
\* write_registers returns register.read_bytes(address, len(write_data)),
\* which calls the read hooks of the addresses written.
C38_Original == bankRes.op = "write" => bankRes.reads = <<>>

\* C39: in a run of DaqClient, on_daq_start is called once and before any
\* on_daq_data; on_daq_stop is called once, after the last on_daq_data and
\* before the state is STOPPED, whether the run ends by stop(), by a socket
\* error in the loop or by a failed connect.
C39_DaqCallbacks ==
    /\ [](/\ daq_calls.on_daq_start <= 1
          /\ daq_calls.on_daq_stop <= 1
          /\ (daq_calls.on_daq_data > 0 \/ daq_calls.on_daq_stop > 0) =>
                 daq_calls.on_daq_start = 1
          /\ daq_state = THREAD_STOPPED =>
                 daq_calls.on_daq_start = 1 /\ daq_calls.on_daq_stop = 1)
    /\ [][daq_calls.on_daq_stop > 0 =>
              daq_calls'.on_daq_data = daq_calls.on_daq_data]_vars

\* A run that received data and ended in STOPPED after on_daq_stop.
C39_Witness ==
    /\ daq_state = THREAD_STOPPED
    /\ daq_pc = "done"
    /\ daq_calls.on_daq_data >= 1
    /\ daq_calls.on_daq_stop = 1

\* C40, as stated: on_daq_start is called, and the spool worker started,
\* only after connect has returned; a failed connect calls no on_daq_start
\* and starts no worker.  Violated: run() calls on_daq_start first and
\* connects afterwards.
C40_Original ==
    /\ (daq_calls.on_daq_start > 0 \/ raw_pc # "none") => daq_calls.connected
    /\ daq_error = "OSError" => daq_calls.on_daq_start = 0 /\ raw_pc = "none"

====
